---- MODULE Spec2Model ----
(***************************************************************************)
(* Verification model of langextract-typescript: tokenizer, resolver       *)
(* (output parser, record normalizer, aligner) and annotator (chunker,     *)
(* pass orchestrator, multi-pass merge).                                   *)
(*                                                                         *)
(* Text is a sequence of one-character strings.  Character positions are   *)
(* 0-based as in the source, so the character at position p of text t is   *)
(* t[p + 1].                                                               *)
(***************************************************************************)
EXTENDS Integers, Sequences, FiniteSets, TLC

VARIABLES
  pc,     \* position of the modelled call: "call" (not yet run), "done", or
          \* a step of annotateDocuments
  args,   \* arguments of the modelled call
  ret,    \* what the call produced: a value or a raised error
  \* locals of annotateDocuments{SinglePass,SequentialPasses}
  documentIds,               \* id of each input document, by position
  allChunks,                 \* chunks of all documents, in document order
  passNo,                    \* loop variable pass of the sequential-passes loop
  batchStart,                \* loop variable i of the batch loop
  documentExtractions,       \* single pass: documentId -> extractions
  passDocumentExtractions,   \* sequential: documentId -> extractions of this pass
  documentPassExtractions,   \* sequential: documentId -> per-pass lists
  inflight,                  \* the infer call awaited, << >> if none
  inferLog                   \* history of the infer calls made

orchVars == <<documentIds, allChunks, passNo, batchStart, documentExtractions,
              passDocumentExtractions, documentPassExtractions, inflight, inferLog>>

vars == <<pc, args, ret, orchVars>>

(***************************************************************************)
(* Bounds                                                                  *)
(***************************************************************************)
MaxWinLen == 3      \* longest source window handed to align
MaxExtLen == 2      \* longest extraction text
MaxExtr == 2        \* most extractions in one align call
MaxShortLen == 1    \* longest extraction text in a call with several extractions
MaxTokOff == 1      \* largest tokenOffset
MaxCharOff == 1     \* largest charOffset
MaxRawLen == 6      \* most symbols in a raw model output built from fences
MaxRecs == 2        \* most records in a deserialized record list
MaxDocLen == 5      \* longest document text handed to the chunker
MaxBuf == 6         \* largest maxCharBuffer
MaxPasses == 2      \* most per-pass lists handed to the merge
MaxPerPass == 2     \* most extractions in one per-pass list
MaxPos == 1         \* largest character position of a merged span
MaxDocs == 2        \* most input documents of one annotateDocuments call
MaxBatch == 2       \* largest batchLength
MaxRunPasses == 2   \* largest extractionPasses
MaxOrchBuf == 3     \* largest maxCharBuffer of an annotateDocuments call
MaxTokLen == 4      \* longest text handed to tokenize
MaxKeys == 2        \* most keys of one record handed to the normalizer
MaxNormRecs == 2    \* most records handed to the normalizer

(***************************************************************************)
(* Characters: \w is [A-Za-z0-9_], \s is white space, the rest is          *)
(* punctuation.  "A" is the upper-case form of "a".                        *)
(***************************************************************************)
WordChars == {"a", "A", "b", "1", "_"}
SpaceChars == {" ", "\n"}
PunctChars == {"."}

IsWord(c) == c \in WordChars
IsSpace(c) == c \in SpaceChars

ToLowerChar(c) == IF c = "A" THEN "a" ELSE c

Min(a, b) == IF a < b THEN a ELSE b

\* all sequences over S of length 0..n
SeqsUpTo(S, n) == UNION {[1..k -> S] : k \in 0..n}

\* text.substring(from, to) for 0 <= from <= to; both ends are clamped to
\* text.length
Substring(text, from, to) == SubSeq(text, Min(from, Len(text)) + 1, Min(to, Len(text)))

(***************************************************************************)
(* tokenizer.ts                                                            *)
(***************************************************************************)
\* end (exclusive) of the run of word characters that starts at position p
RECURSIVE WordRunEnd(_, _)
WordRunEnd(text, p) ==
  IF p < Len(text) /\ IsWord(text[p + 1]) THEN WordRunEnd(text, p + 1) ELSE p

\* mutant: only runs of word characters match; punctuation is skipped
RECURSIVE TokenMatchesWordsOnly(_, _)
TokenMatchesWordsOnly(text, p) ==
  IF p >= Len(text) THEN <<>>
  ELSE IF IsWord(text[p + 1])
       THEN LET e == WordRunEnd(text, p)
            IN <<[startPos |-> p, endPos |-> e]>> \o TokenMatchesWordsOnly(text, e)
       ELSE TokenMatchesWordsOnly(text, p + 1)

\* the matches of /\b\w+\b|[^\w\s]/g from lastIndex p on, as char intervals
RECURSIVE TokenMatches(_, _)
TokenMatches(text, p) ==
  IF p >= Len(text) THEN <<>>
  ELSE IF IsSpace(text[p + 1]) THEN TokenMatches(text, p + 1)
  ELSE IF IsWord(text[p + 1])
       THEN LET e == WordRunEnd(text, p)
            IN <<[startPos |-> p, endPos |-> e]>> \o TokenMatches(text, e)
       ELSE <<[startPos |-> p, endPos |-> p + 1]>> \o TokenMatches(text, p + 1)

tokenize(text) ==
  LET ms == TokenMatches(text, 0)
  IN [tokens |-> [i \in 1..Len(ms) |-> Substring(text, ms[i].startPos, ms[i].endPos)],
      tokenIntervals |-> [i \in 1..Len(ms) |-> [startToken |-> i - 1, endToken |-> i]],
      charIntervals |-> ms]

\* String.prototype.trim on a character sequence
RECURSIVE TrimStart(_)
TrimStart(s) == IF Len(s) > 0 /\ IsSpace(s[1]) THEN TrimStart(Tail(s)) ELSE s

RECURSIVE TrimEnd(_)
TrimEnd(s) ==
  IF Len(s) > 0 /\ IsSpace(s[Len(s)]) THEN TrimEnd(SubSeq(s, 1, Len(s) - 1)) ELSE s

Trim(s) == TrimEnd(TrimStart(s))

ToLowerCase(s) == [i \in 1..Len(s) |-> ToLowerChar(s[i])]

normalizeToken(token) == Trim(ToLowerCase(token))

(***************************************************************************)
(* resolver.ts: aligner                                                    *)
(***************************************************************************)
NoMatch == [found |-> FALSE, start |-> 0, end |-> 0]

\* does the normalized extraction match the source tokens at start index i
TokensEqualAt(normalizedExtraction, sourceTokens, i) ==
  \A j \in 0..(Len(normalizedExtraction) - 1) :
     normalizeToken(sourceTokens[i + j + 1]) = normalizedExtraction[j + 1]

\* mutant: the last matching start position is taken
findExactMatchRightmost(extractionTokens, sourceTokens, tokenOffset) ==
  LET normalizedExtraction ==
        [j \in 1..Len(extractionTokens) |-> normalizeToken(extractionTokens[j])]
      n == Len(normalizedExtraction)
      hits == {i \in tokenOffset..(Len(sourceTokens) - n) :
                 TokensEqualAt(normalizedExtraction, sourceTokens, i)}
  IN IF hits = {} THEN NoMatch
     ELSE LET i == CHOOSE h \in hits : \A g \in hits : h >= g
          IN [found |-> TRUE, start |-> i, end |-> i + n]

findExactMatch(extractionTokens, sourceTokens, tokenOffset) ==
  LET normalizedExtraction ==
        [j \in 1..Len(extractionTokens) |-> normalizeToken(extractionTokens[j])]
      n == Len(normalizedExtraction)
      hits == {i \in tokenOffset..(Len(sourceTokens) - n) :
                 TokensEqualAt(normalizedExtraction, sourceTokens, i)}
  IN IF hits = {} THEN NoMatch
     ELSE LET i == CHOOSE h \in hits : \A g \in hits : h <= g
          IN [found |-> TRUE, start |-> i, end |-> i + n]

\* number of positions j at which window i agrees with the extraction
MatchCount(normalizedExtraction, sourceTokens, i) ==
  Cardinality({j \in 0..(Len(normalizedExtraction) - 1) :
     normalizeToken(sourceTokens[i + j + 1]) = normalizedExtraction[j + 1]})

\* mutant: the similarity must exceed the threshold
findFuzzyMatchAboveThreshold(extractionTokens, sourceTokens, tokenOffset, threshold) ==
  LET normalizedExtraction ==
        [j \in 1..Len(extractionTokens) |-> normalizeToken(extractionTokens[j])]
      n == Len(normalizedExtraction)
      hits == {i \in tokenOffset..(Len(sourceTokens) - n) :
                 /\ n > 0
                 /\ MatchCount(normalizedExtraction, sourceTokens, i) * threshold.den
                      > threshold.num * n}
  IN IF hits = {} THEN NoMatch
     ELSE LET i == CHOOSE h \in hits : \A g \in hits : h <= g
          IN [found |-> TRUE, start |-> i, end |-> i + n]

\* The threshold is the fraction threshold.num / threshold.den.  With no
\* extraction tokens the source computes 0 / 0 = NaN, and NaN >= threshold
\* is false.
findFuzzyMatch(extractionTokens, sourceTokens, tokenOffset, threshold) ==
  LET normalizedExtraction ==
        [j \in 1..Len(extractionTokens) |-> normalizeToken(extractionTokens[j])]
      n == Len(normalizedExtraction)
      hits == {i \in tokenOffset..(Len(sourceTokens) - n) :
                 /\ n > 0
                 /\ MatchCount(normalizedExtraction, sourceTokens, i) * threshold.den
                      >= threshold.num * n}
  IN IF hits = {} THEN NoMatch
     ELSE LET i == CHOOSE h \in hits : \A g \in hits : h <= g
          IN [found |-> TRUE, start |-> i, end |-> i + n]

\* tokens.charIntervals[endToken - 1] is undefined when endToken = 0, and
\* reading .endPos of undefined throws a TypeError.
tokenToCharInterval(startToken, endToken, sourceText, charOffset) ==
  LET tokens == tokenize(sourceText)
      nIv == Len(tokens.charIntervals)
      startPos == IF startToken < nIv
                  THEN charOffset + tokens.charIntervals[startToken + 1].startPos
                  ELSE charOffset
  IN IF endToken <= nIv
     THEN IF endToken = 0
          THEN [threw |-> TRUE, startPos |-> 0, endPos |-> 0]
          ELSE [threw |-> FALSE, startPos |-> startPos,
                endPos |-> charOffset + tokens.charIntervals[endToken].endPos]
     ELSE [threw |-> FALSE, startPos |-> startPos,
           endPos |-> charOffset + Len(sourceText)]

\* { ...e, <fields of add> }
Spread(e, add) ==
  [f \in (DOMAIN e) \cup (DOMAIN add) |-> IF f \in DOMAIN add THEN add[f] ELSE e[f]]

FUZZY_ALIGNMENT_MIN_THRESHOLD == [num |-> 3, den |-> 4]

\* outcome of alignSingleExtraction: "null", "aligned" (with the new
\* extraction) or "throw"
AlignOutcome(kind, e) == [kind |-> kind, extraction |-> e]

AlignedWith(extraction, m, sourceText, charOffset, status) ==
  LET ci == tokenToCharInterval(m.start, m.end, sourceText, charOffset)
  IN IF ci.threw THEN AlignOutcome("throw", extraction)
     ELSE AlignOutcome("aligned",
            Spread(extraction,
                   [charInterval |-> [startPos |-> ci.startPos, endPos |-> ci.endPos],
                    alignmentStatus |-> status]))

alignSingleExtraction(extraction, sourceTokens, sourceText, tokenOffset, charOffset, enableFuzzyAlignment, fuzzyAlignmentThreshold) ==
  LET extractionTokens == tokenize(extraction.extractionText).tokens
      exactMatch == findExactMatch(extractionTokens, sourceTokens, tokenOffset)
      fuzzyMatch == findFuzzyMatch(extractionTokens, sourceTokens, tokenOffset,
                                   fuzzyAlignmentThreshold)
  IN IF exactMatch.found
     THEN AlignedWith(extraction, exactMatch, sourceText, charOffset, "match_exact")
     ELSE IF enableFuzzyAlignment /\ fuzzyMatch.found
     THEN AlignedWith(extraction, fuzzyMatch, sourceText, charOffset, "match_fuzzy")
     ELSE AlignOutcome("null", extraction)

\* result of a call: a returned value or a raised error
Returned(v) == [raised |-> FALSE, value |-> v]
Raised(name, message) == [raised |-> TRUE, value |-> [name |-> name, message |-> message]]

align(extractions, sourceText, tokenOffset, charOffset, enableFuzzyAlignment, fuzzyAlignmentThreshold) ==
  LET sourceTokens == tokenize(sourceText).tokens
      outcome == [k \in 1..Len(extractions) |->
                    alignSingleExtraction(extractions[k], sourceTokens, sourceText,
                                          tokenOffset, charOffset,
                                          enableFuzzyAlignment, fuzzyAlignmentThreshold)]
  IN IF \E k \in 1..Len(extractions) : outcome[k].kind = "throw"
     THEN Raised("TypeError", "Cannot read properties of undefined")
     ELSE LET kept == SelectSeq(outcome, LAMBDA o : o.kind = "aligned")
          IN Returned([k \in 1..Len(kept) |-> kept[k].extraction])

(***************************************************************************)
(* resolver.ts: output parser and record normalizer                        *)
(*                                                                         *)
(* A deserialized value is a tagged record.  Object keys are sequences of  *)
(* name fragments, so that "p" + "_attributes" is <<"p", "_attributes">>   *)
(* and endsWith compares the trailing fragments.  An object keeps its      *)
(* entries in insertion order, as Object.entries reports them.             *)
(***************************************************************************)
JStr(s) == [t |-> "string", s |-> s]
JNum == [t |-> "number"]
JNull == [t |-> "null"]
JUndefined == [t |-> "undefined"]
JArr(items) == [t |-> "array", items |-> items]
JObj(entries) == [t |-> "object", entries |-> entries]
Entry(key, value) == [key |-> key, value |-> value]

EXTRACTIONS_KEY == <<"extractions">>
ATTRIBUTE_SUFFIX == <<"_attributes">>

\* key.endsWith(suffix)
EndsWith(key, suffix) ==
  /\ Len(key) >= Len(suffix)
  /\ SubSeq(key, Len(key) - Len(suffix) + 1, Len(key)) = suffix

\* key in obj
HasKey(obj, key) == \E k \in 1..Len(obj.entries) : obj.entries[k].key = key

\* data[key]: own property of an object; a string or an array has only index
\* and length properties, every other read gives undefined
JsGet(data, key) ==
  IF data.t = "object" /\ HasKey(data, key)
  THEN data.entries[CHOOSE k \in 1..Len(data.entries) : data.entries[k].key = key].value
  ELSE JUndefined

\* Object.entries(data); reading the entries of null or undefined throws
ObjectEntries(data) ==
  CASE data.t = "object" -> Returned(data.entries)
    [] data.t = "string" ->
         Returned([k \in 1..Len(data.s) |-> Entry(<<ToString(k - 1)>>, JStr(<<data.s[k]>>))])
    [] data.t = "array" ->
         Returned([k \in 1..Len(data.items) |-> Entry(<<ToString(k - 1)>>, data.items[k])])
    [] data.t \in {"null", "undefined"} ->
         Raised("TypeError", "Cannot convert undefined or null to object")
    [] OTHER -> Returned(<<>>)

\* A raw model output is a sequence of symbols: a triple-backtick fence, a
\* format tag (json, yaml, yml), white space (newline, space), a complete
\* JSON text for a value, or text that is not valid JSON.
FenceSym == [sym |-> "fence"]
TagSym == [sym |-> "tag"]
NlSym == [sym |-> "nl"]
SpSym == [sym |-> "sp"]
JunkSym == [sym |-> "junk"]
JsonSym(v) == [sym |-> "json", value |-> v]

IsWhiteSym(x) == x.sym \in {"nl", "sp"}

RECURSIVE TrimSymsStart(_)
TrimSymsStart(s) == IF Len(s) > 0 /\ IsWhiteSym(s[1]) THEN TrimSymsStart(Tail(s)) ELSE s

RECURSIVE TrimSymsEnd(_)
TrimSymsEnd(s) ==
  IF Len(s) > 0 /\ IsWhiteSym(s[Len(s)]) THEN TrimSymsEnd(SubSeq(s, 1, Len(s) - 1)) ELSE s

\* inputString.trim()
TrimSyms(s) == TrimSymsEnd(TrimSymsStart(s))

\* content.match(/```(?:json|yaml|yml)\n?([\s\S]*?)\n?```/): the leftmost
\* fence immediately followed by a tag, an optional newline, then the shortest
\* capture that is followed by an optional newline and a fence
fenceRegexMatch(content) ==
  LET opens == {p \in 1..(Len(content) - 1) :
                  /\ content[p].sym = "fence"
                  /\ content[p + 1].sym = "tag"
                  /\ \E q \in (p + 2)..Len(content) : content[q].sym = "fence"}
  IN IF opens = {} THEN [matched |-> FALSE, group1 |-> <<>>]
     ELSE LET p == CHOOSE o \in opens : \A g \in opens : o <= g
              close == CHOOSE q \in (p + 2)..Len(content) :
                         /\ content[q].sym = "fence"
                         /\ \A g \in (p + 2)..(q - 1) : content[g].sym # "fence"
              from == IF content[p + 2].sym = "nl" /\ close > p + 2 THEN p + 3 ELSE p + 2
              to == IF close - 1 >= from /\ content[close - 1].sym = "nl"
                    THEN close - 2 ELSE close - 1
          IN [matched |-> TRUE, group1 |-> SubSeq(content, from, to)]

\* JSON.parse(content): white space around one complete JSON text
JsonParse(content) ==
  LET body == SelectSeq(content, LAMBDA x : ~IsWhiteSym(x))
  IN IF Len(body) = 1 /\ body[1].sym = "json"
     THEN Returned(body[1].value)
     ELSE Raised("Error", "Failed to parse content as json")

extractAndParseContent(inputString, fenceOutput) ==
  LET trimmed == TrimSyms(inputString)
      m == fenceRegexMatch(trimmed)
      content == IF fenceOutput /\ m.matched THEN TrimSyms(m.group1) ELSE trimmed
  IN JsonParse(content)

\* the shape test on the parsed value; a parse error propagates
ExtractionDataOf(parsed) ==
  IF parsed.raised THEN parsed
  ELSE IF parsed.value.t = "array" THEN Returned(parsed.value)
  ELSE IF parsed.value.t = "object" /\ HasKey(parsed.value, EXTRACTIONS_KEY)
  THEN Returned(JsGet(parsed.value, EXTRACTIONS_KEY))
  ELSE Raised("Error", "Invalid extraction data format")

stringToExtractionData(inputString, fenceOutput) ==
  ExtractionDataOf(extractAndParseContent(inputString, fenceOutput))

\* the extractions one record contributes, or a raised TypeError
RecordExtractions(data, i, suffix) ==
  LET es == ObjectEntries(data)
  IN IF es.raised THEN es
     ELSE LET emit == SelectSeq(es.value,
                        LAMBDA en : ~EndsWith(en.key, suffix) /\ en.value.t = "string")
          IN Returned([k \in 1..Len(emit) |->
               LET attrs == JsGet(data, emit[k].key \o suffix)
                   base == [extractionClass |-> emit[k].key,
                            extractionText |-> emit[k].value.s,
                            extractionIndex |-> i]
               IN IF attrs.t \in {"object", "array"}
                  THEN Spread(base, [attributes |-> attrs])
                  ELSE base])

RECURSIVE ExtractFrom(_, _, _, _)
ExtractFrom(records, i, n, suffix) ==
  IF i >= n THEN Returned(<<>>)
  ELSE LET head == RecordExtractions(records[i + 1], i, suffix)
           rest == ExtractFrom(records, i + 1, n, suffix)
       IN IF head.raised THEN head
          ELSE IF rest.raised THEN rest
          ELSE Returned(head.value \o rest.value)

\* extractionData.length is a number for an array and a string, undefined for
\* a number or an object (the loop then never runs), and throws for null
extractOrderedExtractions(extractionData, suffix) ==
  CASE extractionData.t = "array" ->
         ExtractFrom(extractionData.items, 0, Len(extractionData.items), suffix)
    [] extractionData.t = "string" ->
         ExtractFrom([k \in 1..Len(extractionData.s) |-> JStr(<<extractionData.s[k]>>)],
                     0, Len(extractionData.s), suffix)
    [] extractionData.t \in {"null", "undefined"} ->
         Raised("TypeError", "Cannot read properties of null")
    [] OTHER -> Returned(<<>>)

\* the try block of resolve after stringToExtractionData
ExtractParsed(extractionData) ==
  IF extractionData.raised THEN extractionData
  ELSE extractOrderedExtractions(extractionData.value, ATTRIBUTE_SUFFIX)

\* the catch block of resolve: any error of the try block is swallowed or
\* rethrown as ResolverParsingError; its message embeds the caught error's
\* message, which is what the model keeps of it
CatchParseError(result, suppressParseErrors) ==
  IF ~result.raised THEN result
  ELSE IF suppressParseErrors THEN Returned(<<>>)
  ELSE Raised("ResolverParsingError", result.value.message)

resolve(inputText, fenceOutput, suppressParseErrors) ==
  CatchParseError(ExtractParsed(stringToExtractionData(inputText, fenceOutput)),
                  suppressParseErrors)

(***************************************************************************)
(* annotator.ts: chunker                                                   *)
(***************************************************************************)
\* mutant: the two offsets are stored in each other's field
ChunkAtSwappedOffsets(text, maxCharBuffer, currentPos, tokenOffset) ==
  LET chunkEnd == Min(currentPos + maxCharBuffer, Len(text))
  IN [text |-> Substring(text, currentPos, chunkEnd),
      tokenOffset |-> currentPos,
      charOffset |-> tokenOffset]

\* mutant: the chunk text stops one character short of chunkEnd
ChunkAtExclusiveEnd(text, maxCharBuffer, currentPos, tokenOffset) ==
  LET chunkEnd == Min(currentPos + maxCharBuffer, Len(text))
  IN [text |-> Substring(text, currentPos, chunkEnd - 1),
      tokenOffset |-> tokenOffset,
      charOffset |-> currentPos]

\* the record one iteration of the chunking loop pushes
ChunkAt(text, maxCharBuffer, currentPos, tokenOffset) ==
  LET chunkEnd == Min(currentPos + maxCharBuffer, Len(text))
  IN [text |-> Substring(text, currentPos, chunkEnd),
      tokenOffset |-> tokenOffset,
      charOffset |-> currentPos]

\* the while loop of chunkDocument from cursor (currentPos, tokenOffset) on
RECURSIVE ChunkLoop(_, _, _, _)
ChunkLoop(text, maxCharBuffer, currentPos, tokenOffset) ==
  IF currentPos < Len(text)
  THEN LET chunk == ChunkAt(text, maxCharBuffer, currentPos, tokenOffset)
           chunkEnd == Min(currentPos + maxCharBuffer, Len(text))
       IN <<chunk>> \o ChunkLoop(text, maxCharBuffer, chunkEnd,
                                 tokenOffset + Len(tokenize(chunk.text).tokens))
  ELSE <<>>

chunkDocument(text, maxCharBuffer) == ChunkLoop(text, maxCharBuffer, 0, 0)

(***************************************************************************)
(* annotator.ts: multi-pass merge                                          *)
(***************************************************************************)
HasCharInterval(e) == "charInterval" \in DOMAIN e

\* mutant: only tests whether extraction2 starts strictly inside extraction1
extractionsOverlapStartsInside(extraction1, extraction2) ==
  IF ~HasCharInterval(extraction1) \/ ~HasCharInterval(extraction2) THEN FALSE
  ELSE LET start1 == extraction1.charInterval.startPos
           end1 == extraction1.charInterval.endPos
           start2 == extraction2.charInterval.startPos
       IN start1 < start2 /\ start2 < end1

extractionsOverlap(extraction1, extraction2) ==
  IF ~HasCharInterval(extraction1) \/ ~HasCharInterval(extraction2) THEN FALSE
  ELSE LET start1 == extraction1.charInterval.startPos
           end1 == extraction1.charInterval.endPos
           start2 == extraction2.charInterval.startPos
           end2 == extraction2.charInterval.endPos
       IN start1 < end2 /\ start2 < end1

\* mutant: an extraction without charInterval is not appended
RECURSIVE MergePassDropsUnaligned(_, _)
MergePassDropsUnaligned(mergedExtractions, passExtractions) ==
  IF passExtractions = <<>> THEN mergedExtractions
  ELSE LET extraction == Head(passExtractions)
           overlaps ==
             \/ ~HasCharInterval(extraction)
             \/ \E k \in 1..Len(mergedExtractions) :
                  /\ HasCharInterval(mergedExtractions[k])
                  /\ extractionsOverlap(extraction, mergedExtractions[k])
       IN MergePassDropsUnaligned(IF overlaps THEN mergedExtractions
                                  ELSE Append(mergedExtractions, extraction),
                                  Tail(passExtractions))

\* the inner loops of the merge: visit the extractions of one later pass in
\* list order, appending those that overlap nothing merged so far
RECURSIVE MergePass(_, _)
MergePass(mergedExtractions, passExtractions) ==
  IF passExtractions = <<>> THEN mergedExtractions
  ELSE LET extraction == Head(passExtractions)
           overlaps ==
             /\ HasCharInterval(extraction)
             /\ \E k \in 1..Len(mergedExtractions) :
                  /\ HasCharInterval(mergedExtractions[k])
                  /\ extractionsOverlap(extraction, mergedExtractions[k])
       IN MergePass(IF overlaps THEN mergedExtractions
                    ELSE Append(mergedExtractions, extraction),
                    Tail(passExtractions))

\* the outer loop: passes i = from .. allExtractions.length - 1
RECURSIVE MergeFrom(_, _, _)
MergeFrom(mergedExtractions, allExtractions, from) ==
  IF from > Len(allExtractions) THEN mergedExtractions
  ELSE MergeFrom(MergePass(mergedExtractions, allExtractions[from]), allExtractions, from + 1)

\* mutant: the first pass is filtered like the later ones
mergeFilteringFirstPass(allExtractions) == MergeFrom(<<>>, allExtractions, 1)

mergeNonOverlappingExtractions(allExtractions) ==
  IF Len(allExtractions) = 0 THEN <<>>
  ELSE IF Len(allExtractions) = 1 THEN allExtractions[1]
  ELSE MergeFrom(allExtractions[1], allExtractions, 2)

(***************************************************************************)
(* annotator.ts: pass orchestrator                                         *)
(***************************************************************************)
\* a Map: a function whose domain is the set of keys present
EmptyMap == [k \in {} |-> <<>>]
MapHas(m, k) == k \in DOMAIN m
MapSet(m, k, v) == [x \in (DOMAIN m) \cup {k} |-> IF x = k THEN v ELSE m[x]]
\* m.get(k) || []
MapGetOrEmpty(m, k) == IF MapHas(m, k) THEN m[k] ELSE <<>>

\* the orchestrator's locals before annotateDocuments has run
OrchIdle ==
  /\ documentIds = <<>>
  /\ allChunks = <<>>
  /\ passNo = 0
  /\ batchStart = 0
  /\ documentExtractions = EmptyMap
  /\ passDocumentExtractions = EmptyMap
  /\ documentPassExtractions = EmptyMap
  /\ inflight = <<>>
  /\ inferLog = <<>>

\* `doc_${Math.random().toString(36).substring(2, 8)}`: a fresh id, taken to
\* differ from every other id of the call
GeneratedId(d) == "doc_" \o ToString(d)

\* mutant: a fresh id is generated even when the document carries one
AssignedIdAlwaysGenerated(document, d) == GeneratedId(d)

\* document.documentId || generated id ("" stands for an absent id)
AssignedId(document, d) ==
  IF document.documentId # "" THEN document.documentId ELSE GeneratedId(d)

\* the entries allChunks gets for documents d .. n
RECURSIVE CollectChunks(_, _, _, _)
CollectChunks(documents, ids, maxCharBuffer, d) ==
  IF d > Len(documents) THEN <<>>
  ELSE LET chunks == chunkDocument(documents[d].text, maxCharBuffer)
       IN [k \in 1..Len(chunks) |->
             [chunk |-> chunks[k], document |-> d, documentId |-> ids[d]]]
          \o CollectChunks(documents, ids, maxCharBuffer, d + 1)

\* mutant: only the response list's length is tested
HasUsableOutputAnyEntry(modelOutputs) == Len(modelOutputs) > 0

\* modelOutputs.length > 0 && modelOutputs[0].output
HasUsableOutput(modelOutputs) ==
  /\ Len(modelOutputs) > 0
  /\ modelOutputs[1].hasOutput
  /\ Len(modelOutputs[1].output) > 0

\* resolver.align on what resolver.resolve returned; an error raised by
\* resolve propagates
AlignResolved(extractions, item) ==
  IF extractions.raised THEN extractions
  ELSE align(extractions.value, item.chunk.text, item.chunk.tokenOffset,
             item.chunk.charOffset, TRUE, FUZZY_ALIGNMENT_MIN_THRESHOLD)

\* resolve and align the first-ranked output of one chunk
ChunkExtractions(item, modelOutputs, fenceOutput) ==
  AlignResolved(resolve(modelOutputs[1].output, fenceOutput, FALSE), item)

\* docExtractions.push(...alignedExtractions) on the list kept for documentId
PushAligned(acc, documentId, alignedExtractions) ==
  IF alignedExtractions.raised THEN alignedExtractions
  ELSE Returned(MapSet(acc, documentId,
                       MapGetOrEmpty(acc, documentId) \o alignedExtractions.value))

\* one iteration of the result-processing loop, entered with the outcome of
\* the iterations before it
ProcessResult(before, item, modelOutputs, fenceOutput) ==
  IF before.raised THEN before
  ELSE IF ~HasUsableOutput(modelOutputs) THEN before
  ELSE PushAligned(before.value, item.documentId,
                   ChunkExtractions(item, modelOutputs, fenceOutput))

\* the result-processing loop over j = 0 .. upTo - 1: the accumulator Map
\* after these iterations, or the error that ended the loop
RECURSIVE ProcessResults(_, _, _, _, _)
ProcessResults(acc, chunkBatch, batchModelOutputs, fenceOutput, upTo) ==
  IF upTo = 0 THEN Returned(acc)
  ELSE ProcessResult(ProcessResults(acc, chunkBatch, batchModelOutputs, fenceOutput,
                                    upTo - 1),
                     chunkBatch[upTo], batchModelOutputs[upTo], fenceOutput)

\* mutant: the slice in reverse order
BatchSliceReversed(chunks, from, batchLength) ==
  [k \in 1..(Min(from + batchLength, Len(chunks)) - from) |->
     Min(from + batchLength, Len(chunks)) + 1 - k]

\* allChunks.slice(i, i + batchLength), as positions in allChunks
BatchSlice(chunks, from, batchLength) ==
  [k \in 1..(Min(from + batchLength, Len(chunks)) - from) |-> from + k]

\* the loop that pushes each document's pass list onto its per-pass lists
RECURSIVE StorePass(_, _, _, _)
StorePass(perDoc, passMap, ids, d) ==
  IF d > Len(ids) THEN perDoc
  ELSE StorePass(IF MapHas(perDoc, ids[d])
                 THEN MapSet(perDoc, ids[d],
                             Append(perDoc[ids[d]], MapGetOrEmpty(passMap, ids[d])))
                 ELSE perDoc,
                 passMap, ids, d + 1)

AnnotatedDocument(id, text, extractions) ==
  [documentId |-> id, text |-> text, extractions |-> extractions,
   tokenizedText |-> tokenize(text)]

(***************************************************************************)
(* Specification SpecAlign: one call of Resolver.align on bounded inputs.  *)
(***************************************************************************)
AlignChars == {"a", "A", " ", "."}

\* an extraction as the normalizer emits it (no alignment fields yet)
NewExtraction(class, text, index) ==
  [extractionClass |-> class, extractionText |-> text, extractionIndex |-> index]

ExtractionList(texts) == [k \in 1..Len(texts) |-> NewExtraction(<<"p">>, texts[k], k - 1)]

\* the list with the attributes the normalizer attaches from a sibling
\* "<class>_attributes" object set on every extraction
WithAttributes(list) ==
  [k \in 1..Len(list) |->
     Spread(list[k], [attributes |-> JObj(<<Entry(<<"k">>, JStr(<<"v">>))>>)])]

\* extraction lists: one text of up to MaxExtLen characters, or up to MaxExtr
\* texts of up to MaxShortLen characters
AlignTextLists ==
  {<<t>> : t \in SeqsUpTo(AlignChars, MaxExtLen)}
    \cup SeqsUpTo(SeqsUpTo(AlignChars, MaxShortLen), MaxExtr)

\* the default threshold and a laxer one a caller may pass
AlignThresholds == {FUZZY_ALIGNMENT_MIN_THRESHOLD, [num |-> 1, den |-> 2]}

InitAlign ==
  /\ pc = "call"
  /\ ret = Returned(<<>>)
  /\ OrchIdle
  /\ \E texts \in AlignTextLists, w \in SeqsUpTo(AlignChars, MaxWinLen),
        to \in 0..MaxTokOff, co \in 0..MaxCharOff, fz \in BOOLEAN,
        th \in AlignThresholds, at \in BOOLEAN :
       args = [extractions |-> IF at THEN WithAttributes(ExtractionList(texts))
                               ELSE ExtractionList(texts),
               sourceText |-> w,
               tokenOffset |-> to, charOffset |-> co, enableFuzzyAlignment |-> fz,
               fuzzyAlignmentThreshold |-> th]

\* mutant: the alignment fields are written into the input extractions,
\* which are returned themselves
AlignCallInPlace ==
  /\ pc = "call"
  /\ \E aligned \in {align(args.extractions, args.sourceText, args.tokenOffset,
                           args.charOffset, args.enableFuzzyAlignment,
                           args.fuzzyAlignmentThreshold)} :
       /\ ret' = aligned
       /\ args' = [args EXCEPT !.extractions =
                     [k \in 1..Len(args.extractions) |->
                        IF ~aligned.raised
                             /\ \E r \in 1..Len(aligned.value) :
                                  aligned.value[r].extractionIndex = k - 1
                        THEN aligned.value[CHOOSE r \in 1..Len(aligned.value) :
                                             aligned.value[r].extractionIndex = k - 1]
                        ELSE args.extractions[k]]]
  /\ pc' = "done"
  /\ UNCHANGED orchVars

AlignCall ==
  /\ pc = "call"
  /\ ret' = align(args.extractions, args.sourceText, args.tokenOffset, args.charOffset,
                  args.enableFuzzyAlignment, args.fuzzyAlignmentThreshold)
  /\ pc' = "done"
  /\ UNCHANGED <<args, orchVars>>

NextAlign == AlignCall

SpecAlign == InitAlign /\ [][NextAlign]_vars

(***************************************************************************)
(* Properties of align                                                     *)
(***************************************************************************)
\* t occurs in w as a verbatim (case-sensitive) substring
IsVerbatimSubstring(t, w) ==
  \E s \in 0..(Len(w) - Len(t)) : Substring(w, s, s + Len(t)) = t

LowerTrim(s) == Trim(ToLowerCase(s))

\* the extractions returned by the finished call ( << >> if it raised)
AlignReturned == IF ret.raised THEN <<>> ELSE ret.value

\* C2: round trip -- with tokenOffset 0, every extraction whose text is a
\* verbatim substring of the window is returned with status match_exact and a
\* charInterval [s, e) such that window[s - c, e - c), lowercased and trimmed,
\* equals the extraction text lowercased and trimmed.
C2_RoundTrip ==
  (pc = "done" /\ args.tokenOffset = 0) =>
    \A k \in 1..Len(args.extractions) :
      IsVerbatimSubstring(args.extractions[k].extractionText, args.sourceText) =>
        /\ ~ret.raised
        /\ \E r \in 1..Len(AlignReturned) :
             LET x == AlignReturned[r]
                 c == args.charOffset
             IN /\ x.extractionIndex = k - 1
                /\ x.alignmentStatus = "match_exact"
                /\ x.charInterval.startPos - c >= 0
                /\ x.charInterval.endPos - c <= Len(args.sourceText)
                /\ LowerTrim(Substring(args.sourceText, x.charInterval.startPos - c,
                                       x.charInterval.endPos - c))
                     = LowerTrim(args.extractions[k].extractionText)

\* C3: every extraction returned by align has a charInterval with
\* charOffset <= startPos < endPos <= charOffset + len(window).
C3_CharIntervalInWindow ==
  pc = "done" =>
    \A r \in 1..Len(AlignReturned) :
      LET x == AlignReturned[r]
      IN /\ "charInterval" \in DOMAIN x
         /\ args.charOffset <= x.charInterval.startPos
         /\ x.charInterval.startPos < x.charInterval.endPos
         /\ x.charInterval.endPos <= args.charOffset + Len(args.sourceText)

\* an exact match or, when enabled, a fuzzy match exists for extraction e
HasMatch(e) ==
  LET extractionTokens == tokenize(e.extractionText).tokens
      sourceTokens == tokenize(args.sourceText).tokens
  IN \/ findExactMatch(extractionTokens, sourceTokens, args.tokenOffset).found
     \/ /\ args.enableFuzzyAlignment
        /\ findFuzzyMatch(extractionTokens, sourceTokens, args.tokenOffset,
                          args.fuzzyAlignmentThreshold).found

\* C4: align never raises and returns, in input order, exactly the input
\* extractions for which an exact or (enabled) fuzzy match exists.
C4_AlignTotalAndFiltering ==
  pc = "done" =>
    /\ ~ret.raised
    /\ LET expected == SelectSeq(args.extractions, HasMatch)
       IN /\ Len(AlignReturned) = Len(expected)
          /\ \A r \in 1..Len(expected) :
               /\ AlignReturned[r].extractionIndex = expected[r].extractionIndex
               /\ AlignReturned[r].extractionText = expected[r].extractionText

\* the start positions i (0-based) in the scanned range at which the n
\* tokens of text t equal the window's tokens i .. i+n-1, lowercased and
\* trimmed
ExactStarts(t) ==
  LET E == tokenize(t).tokens
      W == tokenize(args.sourceText).tokens
  IN {i \in args.tokenOffset..(Len(W) - Len(E)) :
        \A j \in 1..Len(E) : LowerTrim(W[i + j]) = LowerTrim(E[j])}

\* the returned extractions that come from input extraction k
ReturnedFor(k) ==
  {r \in 1..Len(AlignReturned) : AlignReturned[r].extractionIndex = k - 1}

\* C24: for an extraction with n >= 1 tokens, exact matching tests the start
\* positions i = tokenOffset, ..., len(sourceTokens) - n in increasing order,
\* comparing lowercased/trimmed tokens element-wise, and takes the first
\* (leftmost) i that matches; the result then has status match_exact and
\* charInterval [charOffset + startPos of window token i, charOffset +
\* endPos of window token i+n-1).
C24_ExactMatchLeftmost ==
  (pc = "done" /\ ~ret.raised) =>
    \A k \in 1..Len(args.extractions) :
      LET t == args.extractions[k].extractionText
          n == Len(tokenize(t).tokens)
          W == tokenize(args.sourceText).charIntervals
          starts == ExactStarts(t)
      IN n >= 1 =>
           IF starts = {}
           THEN \A r \in ReturnedFor(k) : AlignReturned[r].alignmentStatus # "match_exact"
           ELSE LET i == CHOOSE h \in starts : \A g \in starts : h <= g
                IN /\ ReturnedFor(k) # {}
                   /\ \A r \in ReturnedFor(k) :
                        /\ AlignReturned[r].alignmentStatus = "match_exact"
                        /\ AlignReturned[r].charInterval =
                             [startPos |-> args.charOffset + W[i + 1].startPos,
                              endPos |-> args.charOffset + W[i + n].endPos]

\* C24 witness: the one-token extraction occurs twice in the scanned range
\* of the window and is returned with the span of the first occurrence
C24_Witness ==
  /\ pc = "done"
  /\ ~ret.raised
  /\ args.tokenOffset = 0
  /\ args.charOffset = 1
  /\ args.sourceText = <<"A", " ", "a">>
  /\ Len(args.extractions) = 1
  /\ args.extractions[1].extractionText = <<"a">>
  /\ Len(ret.value) = 1
  /\ ret.value[1].charInterval = [startPos |-> 1, endPos |-> 2]

\* the start positions i in the scanned range at which the share of
\* position-aligned equal tokens reaches the threshold
FuzzyStarts(t) ==
  LET E == tokenize(t).tokens
      W == tokenize(args.sourceText).tokens
  IN {i \in args.tokenOffset..(Len(W) - Len(E)) :
        /\ Len(E) > 0
        /\ Cardinality({j \in 1..Len(E) : LowerTrim(W[i + j]) = LowerTrim(E[j])})
             * args.fuzzyAlignmentThreshold.den
             >= args.fuzzyAlignmentThreshold.num * Len(E)}

\* C25: fuzzy matching is attempted only when no exact match exists anywhere
\* in the scanned range and fuzzy alignment is enabled; it selects the first
\* (leftmost) start position whose count of position-aligned equal
\* normalized tokens divided by the number of extraction tokens is >= the
\* threshold and assigns status match_fuzzy; an exact match anywhere in
\* range is preferred to a fuzzy window at an earlier position, and with
\* fuzzy disabled or no window reaching the threshold the extraction is
\* dropped.
C25_FuzzyAfterExact ==
  (pc = "done" /\ ~ret.raised) =>
    \A k \in 1..Len(args.extractions) :
      LET t == args.extractions[k].extractionText
          n == Len(tokenize(t).tokens)
          W == tokenize(args.sourceText).charIntervals
          fuzzy == FuzzyStarts(t)
      IN IF ExactStarts(t) # {}
         THEN /\ ReturnedFor(k) # {}
              /\ \A r \in ReturnedFor(k) : AlignReturned[r].alignmentStatus = "match_exact"
         ELSE IF args.enableFuzzyAlignment /\ fuzzy # {}
         THEN LET i == CHOOSE h \in fuzzy : \A g \in fuzzy : h <= g
              IN /\ ReturnedFor(k) # {}
                 /\ \A r \in ReturnedFor(k) :
                      /\ AlignReturned[r].alignmentStatus = "match_fuzzy"
                      /\ AlignReturned[r].charInterval =
                           [startPos |-> args.charOffset + W[i + 1].startPos,
                            endPos |-> args.charOffset + W[i + n].endPos]
         ELSE ReturnedFor(k) = {}

\* C25 witness: one of the two tokens of the extraction equals the window's
\* token at its position, no window matches exactly, and with threshold 1/2
\* the extraction is returned with status match_fuzzy
C25_Witness ==
  /\ pc = "done"
  /\ ~ret.raised
  /\ args.enableFuzzyAlignment
  /\ args.tokenOffset = 0
  /\ args.sourceText = <<"a", ".", ".">>
  /\ Len(args.extractions) = 1
  /\ args.extractions[1].extractionText = <<".", "a">>
  /\ Len(ret.value) = 1
  /\ ret.value[1].alignmentStatus = "match_fuzzy"

\* the returned extraction x is the input extraction e with only
\* charInterval and alignmentStatus added
OnlyAlignmentAdded(x, e) ==
  /\ DOMAIN x = (DOMAIN e) \cup {"charInterval", "alignmentStatus"}
  /\ \A f \in DOMAIN e : x[f] = e[f]
  /\ x.alignmentStatus \in {"match_exact", "match_fuzzy"}

\* C30: align does not modify its inputs: the extraction objects and the
\* list passed in are unchanged after the call, and every returned
\* extraction is a new object with the same extractionClass, extractionText,
\* attributes and extractionIndex as the input extraction it came from, to
\* which only charInterval and alignmentStatus (always match_exact or
\* match_fuzzy) are added.
C30_AlignLeavesInputs ==
  /\ [][args' = args]_vars
  /\ [](pc = "done" =>
          \A r \in 1..Len(AlignReturned) :
            /\ AlignReturned[r].extractionIndex + 1 \in 1..Len(args.extractions)
            /\ OnlyAlignmentAdded(AlignReturned[r],
                                  args.extractions[AlignReturned[r].extractionIndex + 1]))

\* C30 witness: of two input extractions with attributes align returned the
\* second and dropped the first
C30_Witness ==
  /\ pc = "done"
  /\ ~ret.raised
  /\ Len(args.extractions) = 2
  /\ "attributes" \in DOMAIN args.extractions[2]
  /\ Len(ret.value) = 1
  /\ ret.value[1].extractionIndex = 1
  /\ ret.value[1].attributes = args.extractions[2].attributes

(***************************************************************************)
(* Specification SpecTokenize: one call of tokenize on a bounded text.     *)
(***************************************************************************)
TokenizeChars == {"a", "1", "_", " ", "\n", "."}

InitTokenize ==
  /\ pc = "call"
  /\ ret = Returned(<<>>)
  /\ OrchIdle
  /\ \E text \in SeqsUpTo(TokenizeChars, MaxTokLen) : args = [text |-> text]

TokenizeCall ==
  /\ pc = "call"
  /\ ret' = Returned(tokenize(args.text))
  /\ pc' = "done"
  /\ UNCHANGED <<args, orchVars>>

NextTokenize == TokenizeCall

SpecTokenize == InitTokenize /\ [][NextTokenize]_vars

\* the concatenation of a sequence of strings
RECURSIVE ConcatAll(_)
ConcatAll(ss) == IF ss = <<>> THEN <<>> ELSE Head(ss) \o ConcatAll(Tail(ss))

\* C12: tokenize returns three index-aligned sequences of equal length; token
\* i is the non-empty, whitespace-free text[startPos_i, endPos_i);
\* tokenIntervals[i] = [i, i+1); the char intervals are strictly increasing
\* and do not overlap; all tokens concatenated give the text without its
\* whitespace (so empty and whitespace-only input give empty sequences).
C12_TokenizeStructure ==
  pc = "done" =>
    LET r == ret.value
        n == Len(r.tokens)
    IN /\ Len(r.tokenIntervals) = n
       /\ Len(r.charIntervals) = n
       /\ \A i \in 1..n :
            /\ r.charIntervals[i].startPos >= 0
            /\ r.charIntervals[i].startPos < r.charIntervals[i].endPos
            /\ r.charIntervals[i].endPos <= Len(args.text)
            /\ r.tokens[i] = SubSeq(args.text, r.charIntervals[i].startPos + 1,
                                    r.charIntervals[i].endPos)
            /\ \A c \in 1..Len(r.tokens[i]) : ~IsSpace(r.tokens[i][c])
            /\ r.tokenIntervals[i] = [startToken |-> i - 1, endToken |-> i]
       /\ \A i \in 1..(n - 1) :
            r.charIntervals[i].endPos <= r.charIntervals[i + 1].startPos
       /\ ConcatAll(r.tokens) = SelectSeq(args.text, LAMBDA c : ~IsSpace(c))
       /\ (\A c \in 1..Len(args.text) : IsSpace(args.text[c])) => n = 0

\* C12 witness: a text with a word run of two characters, white space and
\* punctuation, tokenized into two tokens
C12_Witness ==
  /\ pc = "done"
  /\ Len(ret.value.tokens) = 2
  /\ Len(ret.value.tokens[1]) = 2
  /\ ret.value.tokens[2] = <<".">>
  /\ ret.value.charIntervals[2].startPos = 3

(***************************************************************************)
(* Specification SpecResolve: one call of Resolver.resolve (JSON format)   *)
(* on a bounded raw model output.                                          *)
(***************************************************************************)
PersonRecord == JObj(<<Entry(<<"p">>, JStr(<<"a">>))>>)
PersonWithAttributes ==
  JObj(<<Entry(<<"p">>, JStr(<<"a">>)),
         Entry(<<"p">> \o ATTRIBUTE_SUFFIX, JObj(<<Entry(<<"k">>, JStr(<<"v">>))>>))>>)

\* what a model may put where a record is expected
ResolveItems == {PersonRecord, PersonWithAttributes, JStr(<<"a">>), JNum, JNull}

ResolveArrays == {JArr(items) : items \in SeqsUpTo(ResolveItems, MaxRecs)}

\* deserialized values of every top-level shape
ResolveValues ==
  ResolveArrays \cup ResolveItems
    \cup {JObj(<<Entry(EXTRACTIONS_KEY, x)>>) : x \in ResolveArrays \cup ResolveItems}
    \cup {JObj(<<Entry(<<"other_key">>, x)>>) : x \in ResolveArrays \cup ResolveItems}

FirstPayload == JsonSym(JArr(<<PersonRecord>>))
SecondPayload == JsonSym(JObj(<<Entry(EXTRACTIONS_KEY, JArr(<<PersonWithAttributes>>))>>))

\* raw outputs: every value bare and inside a tagged fence, invalid text, and
\* every arrangement of fences, tags, newlines and two payloads
RawOutputs ==
  {<<JsonSym(v)>> : v \in ResolveValues}
    \cup {<<FenceSym, TagSym, NlSym, JsonSym(v), NlSym, FenceSym>> : v \in ResolveValues}
    \cup {<<JunkSym>>, <<FenceSym, TagSym, NlSym, JunkSym, NlSym, FenceSym>>}
    \cup SeqsUpTo({FenceSym, TagSym, NlSym, FirstPayload, SecondPayload}, MaxRawLen)

InitResolve ==
  /\ pc = "call"
  /\ ret = Returned(<<>>)
  /\ OrchIdle
  /\ \E raw \in RawOutputs, fence \in BOOLEAN, suppress \in BOOLEAN :
       args = [inputText |-> raw, fenceOutput |-> fence, suppressParseErrors |-> suppress]

ResolveCall ==
  /\ pc = "call"
  /\ ret' = resolve(args.inputText, args.fenceOutput, args.suppressParseErrors)
  /\ pc' = "done"
  /\ UNCHANGED <<args, orchVars>>

NextResolve == ResolveCall

SpecResolve == InitResolve /\ [][NextResolve]_vars

(***************************************************************************)
(* Properties of resolve                                                   *)
(***************************************************************************)
\* the value the deserializer produced for the call's input
ParsedInput == extractAndParseContent(args.inputText, args.fenceOutput)

\* the accepted shapes: a top-level array, or an object with a key
\* "extractions" holding an array
AcceptedShape(v) ==
  \/ v.t = "array"
  \/ /\ v.t = "object"
     /\ HasKey(v, EXTRACTIONS_KEY)
     /\ JsGet(v, EXTRACTIONS_KEY).t = "array"

\* the record list of a value of an accepted shape
RecordList(v) == IF v.t = "array" THEN v ELSE JsGet(v, EXTRACTIONS_KEY)

\* the input fails deserialization or has a shape that is not accepted
Malformed == ParsedInput.raised \/ ~AcceptedShape(ParsedInput.value)

\* deserializable, of an accepted shape, and every record is an object
WellFormed ==
  /\ ~Malformed
  /\ \A k \in 1..Len(RecordList(ParsedInput.value).items) :
       RecordList(ParsedInput.value).items[k].t = "object"

\* C6: a malformed input makes resolve raise ResolverParsingError unless
\* suppressParseErrors is set, and then it returns the empty list; for a
\* well-formed input the result is the same under both settings.
C6_ParseErrorOrSuppressed ==
  pc = "done" =>
    /\ (Malformed /\ ~args.suppressParseErrors) =>
          (ret.raised /\ ret.value.name = "ResolverParsingError")
    /\ (Malformed /\ args.suppressParseErrors) => ret = Returned(<<>>)
    /\ WellFormed =>
          /\ ~ret.raised
          /\ ret = resolve(args.inputText, args.fenceOutput, ~args.suppressParseErrors)

\* C7: a deserialized array is the record list; an object is accepted only
\* with a key "extractions" holding an array; every other value fails with
\* "Invalid extraction data format".
C7_AcceptedShapes ==
  (pc = "done" /\ ~args.suppressParseErrors /\ ~ParsedInput.raised) =>
    IF AcceptedShape(ParsedInput.value)
    THEN LET normalized ==
               extractOrderedExtractions(RecordList(ParsedInput.value), ATTRIBUTE_SUFFIX)
         IN IF normalized.raised THEN ret.raised ELSE ret = normalized
    ELSE /\ ret.raised
         /\ ret.value.message = "Invalid extraction data format"

\* position of the first fence of the trimmed input, 0 if there is none
FirstFence(t) ==
  IF \E p \in 1..Len(t) : t[p].sym = "fence"
  THEN CHOOSE p \in 1..Len(t) :
         t[p].sym = "fence" /\ \A g \in 1..(p - 1) : t[g].sym # "fence"
  ELSE 0

\* the first fence after position p, 0 if there is none
NextFence(t, p) ==
  IF \E q \in (p + 1)..Len(t) : t[q].sym = "fence"
  THEN CHOOSE q \in (p + 1)..Len(t) :
         t[q].sym = "fence" /\ \A g \in (p + 1)..(q - 1) : t[g].sym # "fence"
  ELSE 0

\* what lies inside the block opened by the fence at p: after the fence and
\* its optional tag, up to the next fence, or to the end if there is none
BlockContent(t, p) ==
  LET from == IF p + 1 <= Len(t) /\ t[p + 1].sym = "tag" THEN p + 2 ELSE p + 1
      close == NextFence(t, p)
  IN IF close = 0 THEN SubSeq(t, from, Len(t)) ELSE SubSeq(t, from, close - 1)

\* C8: with fencing enabled and an output that starts with a fence, the
\* parser strips the fence whether or not it carries a format tag, and when
\* the closing fence is missing it parses everything after the opening fence.
C8_FenceOptionalTagAndClose ==
  LET t == TrimSyms(args.inputText)
  IN (pc = "done" /\ args.fenceOutput /\ FirstFence(t) = 1) =>
       ret = resolve(BlockContent(t, 1), FALSE, args.suppressParseErrors)

\* C9: with fencing enabled and an output that contains a closed fenced
\* block, only the content of the first fenced block is deserialized; text
\* after its closing fence is ignored.
C9_FirstFencedBlockOnly ==
  LET t == TrimSyms(args.inputText)
      open == FirstFence(t)
  IN (pc = "done" /\ args.fenceOutput /\ open > 0 /\ NextFence(t, open) > 0) =>
       ret = resolve(BlockContent(t, open), FALSE, args.suppressParseErrors)

\* The same for outputs whose first fence carries a format tag: the case the
\* fence pattern of the source recognizes.
FirstTaggedBlockOnly ==
  LET t == TrimSyms(args.inputText)
      open == FirstFence(t)
  IN (/\ pc = "done" /\ args.fenceOutput /\ open > 0 /\ NextFence(t, open) > 0
      /\ t[open + 1].sym = "tag") =>
       ret = resolve(BlockContent(t, open), FALSE, args.suppressParseErrors)

(***************************************************************************)
(* Specification SpecNormalize: one call of extractOrderedExtractions on a *)
(* bounded list of records, each a flat key -> value map.                  *)
(***************************************************************************)
NormKeys == {<<"p">>, <<"q">>, <<"p">> \o ATTRIBUTE_SUFFIX}

NormValues ==
  {JStr(<<"a">>), JNum, JNull, JObj(<<Entry(<<"k">>, JStr(<<"v">>))>>),
   JArr(<<JStr(<<"v">>)>>)}

\* records: up to MaxKeys entries with pairwise different keys, in any order
NormRecords ==
  {JObj(es) : es \in {x \in SeqsUpTo([key : NormKeys, value : NormValues], MaxKeys) :
                        \A i, j \in 1..Len(x) : i # j => x[i].key # x[j].key}}

InitNormalize ==
  /\ pc = "call"
  /\ ret = Returned(<<>>)
  /\ OrchIdle
  /\ \E records \in SeqsUpTo(NormRecords, MaxNormRecs) : args = [extractionData |-> JArr(records)]

NormalizeCall ==
  /\ pc = "call"
  /\ ret' = extractOrderedExtractions(args.extractionData, ATTRIBUTE_SUFFIX)
  /\ pc' = "done"
  /\ UNCHANGED <<args, orchVars>>

NextNormalize == NormalizeCall

SpecNormalize == InitNormalize /\ [][NextNormalize]_vars

\* the extraction the key of entry e of record number i is to emit, with
\* attributes exactly when the sibling value is of one of the given types
EmittedFor(record, e, i, attributeTypes) ==
  LET base == [extractionClass |-> e.key, extractionText |-> e.value.s,
               extractionIndex |-> i]
      sibling == e.key \o ATTRIBUTE_SUFFIX
  IN IF \E k \in 1..Len(record.entries) :
          /\ record.entries[k].key = sibling
          /\ record.entries[k].value.t \in attributeTypes
     THEN [extractionClass |-> base.extractionClass, extractionText |-> base.extractionText,
           extractionIndex |-> base.extractionIndex,
           attributes |-> (CHOOSE x \in {record.entries[k].value : k \in 1..Len(record.entries)} :
                             \E k \in 1..Len(record.entries) :
                               record.entries[k].key = sibling /\ record.entries[k].value = x)]
     ELSE base

\* what records i+1 .. n are to emit: one extraction per key, in key order,
\* whose value is a string and whose name does not end with the suffix
RECURSIVE EmittedFrom(_, _, _)
EmittedFrom(records, i, attributeTypes) ==
  IF i >= Len(records) THEN <<>>
  ELSE LET record == records[i + 1]
           keys == SelectSeq(record.entries,
                     LAMBDA e : e.value.t = "string" /\ ~EndsWith(e.key, ATTRIBUTE_SUFFIX))
       IN [k \in 1..Len(keys) |-> EmittedFor(record, keys[k], i, attributeTypes)]
            \o EmittedFrom(records, i + 1, attributeTypes)

\* C13: the normalizer emits, in record order and key order, one extraction
\* per key with a string value and a name not ending with the suffix, with
\* the record position as index; attributes is the sibling key's value
\* exactly when that value is an object.
C13_NormalizerEmits ==
  pc = "done" =>
    ret = Returned(EmittedFrom(args.extractionData.items, 0, {"object"}))

\* The same with attributes set when the sibling value is an object or an
\* array: what the source's test typeof value === "object" accepts.
NormalizerEmitsTypeofObject ==
  pc = "done" =>
    ret = Returned(EmittedFrom(args.extractionData.items, 0, {"object", "array"}))

(***************************************************************************)
(* Specification SpecChunk: one call of Annotator.chunkDocument.           *)
(***************************************************************************)
ChunkChars == {"a", " ", "."}

InitChunk ==
  /\ pc = "call"
  /\ ret = Returned(<<>>)
  /\ OrchIdle
  /\ \E text \in SeqsUpTo(ChunkChars, MaxDocLen), buf \in 1..MaxBuf :
       args = [text |-> text, maxCharBuffer |-> buf]

ChunkCall ==
  /\ pc = "call"
  /\ ret' = Returned(chunkDocument(args.text, args.maxCharBuffer))
  /\ pc' = "done"
  /\ UNCHANGED <<args, orchVars>>

NextChunk == ChunkCall

SpecChunk == InitChunk /\ [][NextChunk]_vars

\* the texts of a chunk list, concatenated in order
RECURSIVE ConcatChunkTexts(_)
ConcatChunkTexts(chunks) ==
  IF chunks = <<>> THEN <<>> ELSE Head(chunks).text \o ConcatChunkTexts(Tail(chunks))

\* C10: for maxCharBuffer >= 1 the chunks partition the text: concatenated
\* they give the text, chunk 0 starts at 0, each next chunk starts where the
\* previous one ends, every chunk is non-empty and at most maxCharBuffer long,
\* and every chunk but the last is exactly maxCharBuffer long.
C10_ChunksPartitionText ==
  pc = "done" =>
    LET chunks == ret.value
        n == Len(chunks)
    IN /\ ConcatChunkTexts(chunks) = args.text
       /\ n > 0 => chunks[1].charOffset = 0
       /\ \A k \in 1..(n - 1) :
            chunks[k + 1].charOffset = chunks[k].charOffset + Len(chunks[k].text)
       /\ \A k \in 1..n :
            Len(chunks[k].text) >= 1 /\ Len(chunks[k].text) <= args.maxCharBuffer
       /\ \A k \in 1..(n - 1) : Len(chunks[k].text) = args.maxCharBuffer

\* C10 witness: at least three chunks, the last one shorter than the buffer
C10_Witness ==
  /\ pc = "done"
  /\ Len(ret.value) >= 3
  /\ Len(ret.value[Len(ret.value)].text) < args.maxCharBuffer

\* C11 as stated: for every text and every maxCharBuffer >= len(text) the
\* chunker returns exactly one chunk, with charOffset 0, tokenOffset 0 and
\* the whole text.
C11_OneChunkWhenBufferCovers ==
  (pc = "done" /\ args.maxCharBuffer >= Len(args.text)) =>
    ret.value = <<[text |-> args.text, tokenOffset |-> 0, charOffset |-> 0]>>

\* C11 amended: the same for every non-empty text; an empty text gives no
\* chunk at all.
C11_OneChunkWhenNonEmpty ==
  (pc = "done" /\ args.maxCharBuffer >= Len(args.text)) =>
    IF Len(args.text) = 0 THEN ret.value = <<>>
    ELSE ret.value = <<[text |-> args.text, tokenOffset |-> 0, charOffset |-> 0]>>

\* C11 witness: a text of several tokens returned as one chunk by a buffer
\* of exactly its length
C11_Witness ==
  /\ pc = "done"
  /\ Len(args.text) >= 3
  /\ args.maxCharBuffer = Len(args.text)
  /\ Len(tokenize(args.text).tokens) >= 2
  /\ Len(ret.value) = 1

\* the number of tokens of the whole text that start before position p
TokensStartingBefore(text, p) ==
  Cardinality({t \in 1..Len(tokenize(text).charIntervals) :
                 tokenize(text).charIntervals[t].startPos < p})

\* the text of the chunk is the text's substring at the chunk's charOffset
ChunkIsAtCharOffset(chunk) ==
  /\ chunk.charOffset + Len(chunk.text) <= Len(args.text)
  /\ Substring(args.text, chunk.charOffset, chunk.charOffset + Len(chunk.text)) = chunk.text

\* C26: for every chunk produced by chunkDocument, charOffset is the index
\* in the document of the chunk's first character and tokenOffset is the
\* number of tokens of tokenize(document text) that start before the
\* chunk's charOffset; this holds for every text and every maxCharBuffer
\* >= 1, including when a chunk boundary falls inside a word.
C26_OffsetsInDocumentCoordinates ==
  pc = "done" =>
    \A k \in 1..Len(ret.value) :
      /\ ChunkIsAtCharOffset(ret.value[k])
      /\ ret.value[k].tokenOffset = TokensStartingBefore(args.text, ret.value[k].charOffset)

\* chunk k's boundary with its predecessor does not fall inside a token of
\* the whole text
StartsOnTokenBoundary(chunk) ==
  \A t \in 1..Len(tokenize(args.text).charIntervals) :
    ~(/\ tokenize(args.text).charIntervals[t].startPos < chunk.charOffset
      /\ chunk.charOffset < tokenize(args.text).charIntervals[t].endPos)

\* the same when no chunk boundary falls inside a token
OffsetsWhenNoTokenIsSplit ==
  (pc = "done" /\ \A k \in 1..Len(ret.value) : StartsOnTokenBoundary(ret.value[k])) =>
    \A k \in 1..Len(ret.value) :
      /\ ChunkIsAtCharOffset(ret.value[k])
      /\ ret.value[k].tokenOffset = TokensStartingBefore(args.text, ret.value[k].charOffset)

(***************************************************************************)
(* Specification SpecMerge: one call of mergeNonOverlappingExtractions on  *)
(* bounded per-pass lists.  Every extraction is a distinct object; ref     *)
(* names the object (pass, position).                                      *)
(***************************************************************************)
MergeSpans == {[startPos |-> a, endPos |-> b] : a \in 0..MaxPos, b \in 0..MaxPos}

\* spans as the aligner produces them, and "none" for an extraction that
\* carries no charInterval
MergeKinds == {<<"span", iv>> : iv \in {x \in MergeSpans : x.startPos < x.endPos}}
                \cup {<<"none", [startPos |-> 0, endPos |-> 0]>>}

MergeExtraction(kind, pass, k) ==
  LET base == Spread(NewExtraction(<<"p">>, <<"a">>, k - 1), [ref |-> <<pass, k>>])
  IN IF kind[1] = "span"
     THEN Spread(base, [charInterval |-> kind[2], alignmentStatus |-> "match_exact"])
     ELSE base

InitMerge ==
  /\ pc = "call"
  /\ ret = Returned(<<>>)
  /\ OrchIdle
  /\ \E kinds \in SeqsUpTo(SeqsUpTo(MergeKinds, MaxPerPass), MaxPasses) :
       args = [allExtractions |->
                 [p \in 1..Len(kinds) |->
                    [k \in 1..Len(kinds[p]) |-> MergeExtraction(kinds[p][k], p, k)]]]

MergeCall ==
  /\ pc = "call"
  /\ ret' = Returned(mergeNonOverlappingExtractions(args.allExtractions))
  /\ pc' = "done"
  /\ UNCHANGED <<args, orchVars>>

NextMerge == MergeCall

SpecMerge == InitMerge /\ [][NextMerge]_vars

\* start1 < end2 and start2 < end1, for extractions that carry a span
CharOverlap(x, y) ==
  /\ HasCharInterval(x) /\ HasCharInterval(y)
  /\ x.charInterval.startPos < y.charInterval.endPos
  /\ y.charInterval.startPos < x.charInterval.endPos

\* the passes whose list contains the object x
PassesHolding(x) ==
  {p \in 1..Len(args.allExtractions) :
     \E k \in 1..Len(args.allExtractions[p]) : args.allExtractions[p][k] = x}

EachFromOnePass ==
  \A m \in 1..Len(ret.value) : Cardinality(PassesHolding(ret.value[m])) = 1

NoCrossOverlap(A, B) ==
  \A m \in 1..Len(A), n \in 1..Len(B) : ~CharOverlap(A[m], B[n])

\* no two extractions of the list character-overlap
NoInnerOverlap(B) ==
  \A m, n \in 1..Len(B) : m # n => ~CharOverlap(B[m], B[n])

VisitedBefore(x, y) ==
  \/ x.ref[1] < y.ref[1]
  \/ x.ref[1] = y.ref[1] /\ x.ref[2] < y.ref[2]

\* the object x is in the merged list
Merged(x) == \E m \in 1..Len(ret.value) : ret.value[m] = x

OrchTexts == {<<"a">>, <<"a", " ", "b">>}

\* input documents; documentId "" stands for a document without an id
OrchDocuments == [text : OrchTexts, documentId : {"", "d1"}]

ExtractionsOutput(text) ==
  <<JsonSym(JObj(<<Entry(EXTRACTIONS_KEY,
                        JArr(<<JObj(<<Entry(<<"p">>, JStr(text))>>)>>))>>))>>

ScoredOutput(score, raw) == [score |-> score, hasOutput |-> TRUE, output |-> raw]
NoOutput == [score |-> 0, hasOutput |-> FALSE, output |-> <<>>]

\* what infer may return for one prompt: no scored output, the failure
\* sentinel, an empty output string, well-formed output, output that is not
\* valid JSON
ModelResponses ==
  {<<>>, <<NoOutput>>, <<ScoredOutput(1, <<>>)>>,
   <<ScoredOutput(1, ExtractionsOutput(<<"a">>))>>,
   <<ScoredOutput(1, ExtractionsOutput(<<"b">>))>>,
   <<ScoredOutput(1, <<JunkSym>>)>>}

SinglePass == args.extractionPasses = 1

InitOrch ==
  /\ pc = "start"
  /\ ret = Returned(<<>>)
  /\ OrchIdle
  /\ \E n \in 1..MaxDocs : \E docs \in [1..n -> OrchDocuments] :
     \E buf \in 2..MaxOrchBuf, bl \in 1..MaxBatch, passes \in 0..MaxRunPasses :
       args = [documents |-> docs, maxCharBuffer |-> buf, batchLength |-> bl,
               extractionPasses |-> passes, fenceOutput |-> FALSE]

\* assign the document ids and collect the chunks of all documents
Collect ==
  /\ pc = "start"
  /\ LET ids == [d \in 1..Len(args.documents) |-> AssignedId(args.documents[d], d)]
     IN /\ documentIds' = ids
        /\ allChunks' = CollectChunks(args.documents, ids, args.maxCharBuffer, 1)
        /\ documentPassExtractions' =
             IF SinglePass THEN documentPassExtractions
             ELSE [id \in {ids[d] : d \in 1..Len(ids)} |-> <<>>]
  /\ pc' = IF SinglePass THEN "batch" ELSE "pass"
  /\ UNCHANGED <<args, ret, passNo, batchStart, documentExtractions,
                 passDocumentExtractions, inflight, inferLog>>

\* sequential passes: the head of the pass loop starts the next pass
BeginPass ==
  /\ pc = "pass"
  /\ passNo < args.extractionPasses
  /\ passDocumentExtractions' = EmptyMap
  /\ batchStart' = 0
  /\ pc' = "batch"
  /\ UNCHANGED <<args, ret, documentIds, allChunks, passNo, documentExtractions,
                 documentPassExtractions, inflight, inferLog>>

\* sequential passes: the pass loop is over
EndPasses ==
  /\ pc = "pass"
  /\ passNo >= args.extractionPasses
  /\ pc' = "finalize"
  /\ UNCHANGED <<args, ret, orchVars>>

\* the head of the batch loop slices the next batch, renders one prompt per
\* chunk and calls infer
IssueInfer ==
  /\ pc = "batch"
  /\ batchStart < Len(allChunks)
  /\ LET chunkBatch == BatchSlice(allChunks, batchStart, args.batchLength)
     IN /\ inflight' = <<[prompts |-> chunkBatch]>>
        /\ inferLog' = Append(inferLog, [pass |-> passNo, prompts |-> chunkBatch])
  /\ pc' = "await"
  /\ UNCHANGED <<args, ret, documentIds, allChunks, passNo, batchStart,
                 documentExtractions, passDocumentExtractions, documentPassExtractions>>

\* the awaited infer call resolves with one response list per prompt
InferResolve ==
  /\ pc = "await"
  /\ \E batchModelOutputs \in [1..Len(inflight[1].prompts) -> ModelResponses] :
       inflight' = <<[prompts |-> inflight[1].prompts, outputs |-> batchModelOutputs]>>
  /\ pc' = "process"
  /\ UNCHANGED <<args, ret, documentIds, allChunks, passNo, batchStart,
                 documentExtractions, passDocumentExtractions, documentPassExtractions,
                 inferLog>>

\* the continuation of the await: process the results and group them by
\* document id; an error thrown by resolve or align rejects annotateDocuments
ProcessBatch ==
  /\ pc = "process"
  /\ \E processed \in
          {ProcessResults(IF SinglePass THEN documentExtractions
                          ELSE passDocumentExtractions,
                          [k \in 1..Len(inflight[1].prompts) |->
                             allChunks[inflight[1].prompts[k]]],
                          inflight[1].outputs, args.fenceOutput,
                          Len(inflight[1].prompts))} :
       IF processed.raised
       THEN /\ pc' = "failed"
            /\ ret' = processed
            /\ UNCHANGED <<batchStart, documentExtractions, passDocumentExtractions>>
       ELSE /\ pc' = "batch"
            /\ batchStart' = batchStart + args.batchLength
            /\ documentExtractions' =
                 IF SinglePass THEN processed.value ELSE documentExtractions
            /\ passDocumentExtractions' =
                 IF SinglePass THEN passDocumentExtractions ELSE processed.value
            /\ UNCHANGED ret
  /\ inflight' = <<>>
  /\ UNCHANGED <<args, documentIds, allChunks, passNo, documentPassExtractions, inferLog>>

\* errors a language model's infer may reject with
ModelErrors == {Raised("Error", "model error"), Raised("TypeError", "model error")}

\* the awaited infer call rejects
InferReject ==
  /\ pc = "await"
  /\ \E error \in ModelErrors :
       inflight' = <<[prompts |-> inflight[1].prompts, error |-> error]>>
  /\ pc' = "rejected"
  /\ UNCHANGED <<args, ret, documentIds, allChunks, passNo, batchStart,
                 documentExtractions, passDocumentExtractions, documentPassExtractions,
                 inferLog>>

\* mutant: the rejection is replaced by responses without output
RejectionAsNoOutput ==
  /\ pc = "rejected"
  /\ pc' = "process"
  /\ inflight' = <<[prompts |-> inflight[1].prompts,
                    outputs |-> [k \in 1..Len(inflight[1].prompts) |-> <<NoOutput>>]]>>
  /\ UNCHANGED <<args, ret, documentIds, allChunks, passNo, batchStart,
                 documentExtractions, passDocumentExtractions, documentPassExtractions,
                 inferLog>>

\* the await throws the rejection; nothing catches it, so annotateDocuments
\* and extract reject with it
RejectionPropagates ==
  /\ pc = "rejected"
  /\ pc' = "failed"
  /\ ret' = inflight[1].error
  /\ inflight' = <<>>
  /\ UNCHANGED <<args, documentIds, allChunks, passNo, batchStart, documentExtractions,
                 passDocumentExtractions, documentPassExtractions, inferLog>>

\* mutant: the batch loop is left before its last batch
EndBatchesEarly ==
  /\ pc = "batch"
  /\ batchStart + args.batchLength >= Len(allChunks)
  /\ IF SinglePass
     THEN /\ pc' = "finalize"
          /\ UNCHANGED <<passNo, documentPassExtractions>>
     ELSE /\ pc' = "pass"
          /\ passNo' = passNo + 1
          /\ documentPassExtractions' =
               StorePass(documentPassExtractions, passDocumentExtractions, documentIds, 1)
  /\ UNCHANGED <<args, ret, documentIds, allChunks, batchStart, documentExtractions,
                 passDocumentExtractions, inflight, inferLog>>

\* the batch loop is over: a single pass goes on to build the results, a
\* sequential pass stores its lists per document and ends
EndBatches ==
  /\ pc = "batch"
  /\ batchStart >= Len(allChunks)
  /\ IF SinglePass
     THEN /\ pc' = "finalize"
          /\ UNCHANGED <<passNo, documentPassExtractions>>
     ELSE /\ pc' = "pass"
          /\ passNo' = passNo + 1
          /\ documentPassExtractions' =
               StorePass(documentPassExtractions, passDocumentExtractions, documentIds, 1)
  /\ UNCHANGED <<args, ret, documentIds, allChunks, batchStart, documentExtractions,
                 passDocumentExtractions, inflight, inferLog>>

\* create the annotated documents, merging the passes of a sequential run
Finalize ==
  /\ pc = "finalize"
  /\ ret' = Returned(
       [d \in 1..Len(args.documents) |->
          AnnotatedDocument(documentIds[d], args.documents[d].text,
            IF SinglePass THEN MapGetOrEmpty(documentExtractions, documentIds[d])
            ELSE mergeNonOverlappingExtractions(
                   MapGetOrEmpty(documentPassExtractions, documentIds[d])))])
  /\ pc' = "done"
  /\ UNCHANGED <<args, orchVars>>

NextOrch ==
  \/ Collect
  \/ BeginPass
  \/ EndPasses
  \/ IssueInfer
  \/ InferResolve
  \/ ProcessBatch
  \/ InferReject
  \/ RejectionPropagates
  \/ EndBatches
  \/ Finalize

SpecOrch == InitOrch /\ [][NextOrch]_vars

\* C5: a malformed model output of one chunk does not end the run: the
\* chunk contributes no extractions and annotateDocuments still returns.
C5_RunSurvivesMalformedOutput ==
  ~(pc = "failed" /\ ret.raised /\ ret.value.name = "ResolverParsingError")

\* the ids annotateDocuments is to use: the input's documentId when one was
\* provided, else the id generated for that document at collection time
ExpectedIds ==
  [d \in 1..Len(args.documents) |->
     IF args.documents[d].documentId # "" THEN args.documents[d].documentId
     ELSE GeneratedId(d)]

\* C14: annotateDocuments returns one AnnotatedDocument per input document,
\* in input order, with the input's text and the input's documentId or else
\* an id generated once at collection time; from collection on, the id of a
\* document and of each of its chunks stays that id in every pass.
C14_OneResultPerDocument ==
  /\ pc # "start" =>
       /\ documentIds = ExpectedIds
       /\ \A c \in 1..Len(allChunks) :
            allChunks[c].documentId = ExpectedIds[allChunks[c].document]
  /\ pc = "done" =>
       /\ ~ret.raised
       /\ Len(ret.value) = Len(args.documents)
       /\ \A d \in 1..Len(args.documents) :
            /\ ret.value[d].text = args.documents[d].text
            /\ ret.value[d].documentId = ExpectedIds[d]

\* C14 witness: a finished run of two passes over two documents, one with
\* and one without an id, each in more than one chunk or batch
C14_Witness ==
  /\ pc = "done"
  /\ args.extractionPasses = 2
  /\ Len(args.documents) = 2
  /\ args.documents[1].documentId = ""
  /\ args.documents[2].documentId # ""
  /\ Len(allChunks) >= 3
  /\ Len(inferLog) >= 4

\* extraction x lies in text: its span is inside the text and the text at
\* the span, lowercased and trimmed, is the extraction text
GroundedIn(x, text) ==
  /\ "charInterval" \in DOMAIN x
  /\ 0 <= x.charInterval.startPos
  /\ x.charInterval.startPos <= x.charInterval.endPos
  /\ x.charInterval.endPos <= Len(text)
  /\ LowerTrim(Substring(text, x.charInterval.startPos, x.charInterval.endPos))
       = LowerTrim(x.extractionText)

\* C15: whatever ids the documents carry, every extraction in the result
\* for a document was aligned against that document's text: no extraction
\* of one document shows up in the result of another.
C15_NoSharedExtractions ==
  pc = "done" =>
    \A d \in 1..Len(args.documents) :
      \A k \in 1..Len(ret.value[d].extractions) :
        GroundedIn(ret.value[d].extractions[k], args.documents[d].text)

\* The same for runs in which no two documents are assigned the same id.
NoSharedExtractionsDistinctIds ==
  (pc = "done" /\ \A d, e \in 1..Len(documentIds) : d # e => documentIds[d] # documentIds[e]) =>
    \A d \in 1..Len(args.documents) :
      \A k \in 1..Len(ret.value[d].extractions) :
        GroundedIn(ret.value[d].extractions[k], args.documents[d].text)

\* a response without output: an empty response list, or a first-ranked
\* output that is absent or the empty string
NoOutputResponse(modelOutputs) ==
  \/ Len(modelOutputs) = 0
  \/ ~modelOutputs[1].hasOutput
  \/ modelOutputs[1].output = <<>>

\* positions of the awaited batch whose response has output
WithOutput ==
  SelectSeq([k \in 1..Len(inflight[1].prompts) |-> k],
            LAMBDA k : ~NoOutputResponse(inflight[1].outputs[k]))

\* the accumulator the run is filling
Accumulator == IF SinglePass THEN documentExtractions ELSE passDocumentExtractions

\* processing a batch has the effect of processing only its chunks that have
\* output: the others add nothing, and the run goes on unless one of the
\* chunks with output raises
NoOutputAddsNothing ==
  pc = "process" =>
    LET expected ==
          ProcessResults(Accumulator,
                         [k \in 1..Len(WithOutput) |-> allChunks[inflight[1].prompts[WithOutput[k]]]],
                         [k \in 1..Len(WithOutput) |-> inflight[1].outputs[WithOutput[k]]],
                         args.fenceOutput, Len(WithOutput))
    IN IF expected.raised THEN pc' = "failed"
       ELSE /\ pc' = "batch"
            /\ Accumulator' = expected.value

\* within one pass no chunk is in the prompts of two infer calls
NoRetry ==
  \A i, j \in 1..Len(inferLog) :
    (i # j /\ inferLog[i].pass = inferLog[j].pass) =>
      \A k \in 1..Len(inferLog[i].prompts), l \in 1..Len(inferLog[j].prompts) :
        inferLog[i].prompts[k] # inferLog[j].prompts[l]

\* C16: a chunk whose response has no output contributes zero extractions
\* to its document in that pass, the run continues with the remaining
\* chunks, and the chunk is not submitted again within the same pass.
C16_NoOutputNoRetry == []NoRetry /\ [][NoOutputAddsNothing]_vars

\* C16 witness: in a later batch of a run, the response of the first chunk
\* has no output and that of the second chunk has
C16_Witness ==
  /\ pc = "process"
  /\ Len(inferLog) >= 2
  /\ Len(inflight[1].prompts) = 2
  /\ NoOutputResponse(inflight[1].outputs[1])
  /\ ~NoOutputResponse(inflight[1].outputs[2])

\* the extraction as align returns it for the chunk's text taken alone:
\* token offset 0, the chunk's charOffset
AlignedAlone(extraction, item) ==
  align(<<extraction>>, item.chunk.text, 0, item.chunk.charOffset, TRUE,
        FUZZY_ALIGNMENT_MIN_THRESHOLD)

\* the extraction's tokens occur contiguously in the chunk's own tokens
OccursInChunk(extraction, item) ==
  /\ ~AlignedAlone(extraction, item).raised
  /\ Len(AlignedAlone(extraction, item).value) = 1
  /\ AlignedAlone(extraction, item).value[1].alignmentStatus = "match_exact"

\* after a batch is accumulated, every extraction returned for chunk k of
\* the batch that occurs in the chunk is in the list of the chunk's
\* document, as it is aligned for the chunk alone
KeptAsAlignedAlone(k) ==
  LET item == allChunks[inflight[1].prompts[k]]
      resolved == resolve(inflight[1].outputs[k][1].output, args.fenceOutput, FALSE)
  IN (HasUsableOutput(inflight[1].outputs[k]) /\ ~resolved.raised) =>
       \A q \in 1..Len(resolved.value) :
         OccursInChunk(resolved.value[q], item) =>
           \E m \in 1..Len(MapGetOrEmpty(Accumulator', item.documentId)) :
             MapGetOrEmpty(Accumulator', item.documentId)[m] =
               AlignedAlone(resolved.value[q], item).value[1]

\* C23: alignment of a chunk does not depend on the chunk's position in the
\* document: for every chunk index k (not only k = 0), an extraction
\* returned for chunk k whose normalized token sequence occurs contiguously
\* in chunk k's own tokenization is kept by the orchestrator, with
\* charInterval equal to chunk k's charOffset plus the chunk-local span of
\* the leftmost occurrence, exactly as if chunk k's text had been aligned
\* alone with tokenOffset 0.
C23_ChunkAlignedAlone ==
  [][(pc = "process" /\ pc' = "batch") =>
       \A k \in 1..Len(inflight[1].prompts) : KeptAsAlignedAlone(k)]_vars

\* the same for the chunks that start at token 0 of their document
FirstChunkAlignedAlone ==
  [][(pc = "process" /\ pc' = "batch") =>
       \A k \in 1..Len(inflight[1].prompts) :
         allChunks[inflight[1].prompts[k]].chunk.tokenOffset = 0 => KeptAsAlignedAlone(k)]_vars

\* ceil(C / batchLength) for the C chunks of the run
BatchesPerPass == (Len(allChunks) + args.batchLength - 1) \div args.batchLength

\* the infer calls of a whole run, in order: for each pass, one call per
\* batch of batchLength consecutive chunks, the prompts in chunk order
ExpectedCalls ==
  [q \in 1..(args.extractionPasses * BatchesPerPass) |->
     LET b == (q - 1) % BatchesPerPass
         first == b * args.batchLength + 1
         last == Min((b + 1) * args.batchLength, Len(allChunks))
     IN [pass |-> (q - 1) \div BatchesPerPass,
         prompts |-> [k \in 1..(last - first + 1) |-> first + k - 1]]]

\* the chunks are in document order and, within a document, in chunk order
ChunksInDocumentOrder ==
  \A i, j \in 1..Len(allChunks) :
    i < j => \/ allChunks[i].document < allChunks[j].document
             \/ /\ allChunks[i].document = allChunks[j].document
                /\ allChunks[i].chunk.charOffset < allChunks[j].chunk.charOffset

PromptedInPass(p) ==
  Cardinality({<<q, k>> \in (1..Len(inferLog)) \X (1..args.batchLength) :
                 inferLog[q].pass = p /\ k <= Len(inferLog[q].prompts)})

\* at most one infer call is outstanding, and only while the run awaits it
\* or handles its outcome; it is the call made last
OneCallOutstanding ==
  IF pc \in {"await", "process", "rejected"}
  THEN /\ Len(inflight) = 1
       /\ inflight[1].prompts = inferLog[Len(inferLog)].prompts
       /\ PromptedInPass(passNo) = batchStart + Len(inflight[1].prompts)
  ELSE inflight = <<>>

\* an infer call is issued only when every chunk prompted before in this
\* pass has been accumulated
IssuedAfterAccumulation ==
  (pc = "batch" /\ pc' = "await") =>
    /\ inflight = <<>>
    /\ PromptedInPass(passNo) = batchStart

\* a pass is started only when the pass before it has prompted every chunk
\* and stored its lists
PassAfterLastBatch ==
  (pc = "pass" /\ pc' = "batch" /\ passNo > 0) =>
    /\ inflight = <<>>
    /\ PromptedInPass(passNo - 1) = Len(allChunks)
    /\ batchStart >= Len(allChunks)
    /\ \A d \in 1..Len(documentIds) :
         Len(documentPassExtractions[documentIds[d]]) >= passNo

\* merging is started only after the last batch of the last pass
MergeAfterLastPass ==
  (pc = "finalize" /\ pc' = "done") =>
    /\ inflight = <<>>
    /\ \A p \in 0..(args.extractionPasses - 1) : PromptedInPass(p) = Len(allChunks)
    /\ ~SinglePass => passNo = args.extractionPasses

\* C29: the orchestrator never has two infer calls outstanding: the infer
\* call for batch b+1 is issued only after the response to batch b has been
\* received and all of its extractions accumulated, pass p+1 starts only
\* after the last batch of pass p has been accumulated, and merging starts
\* only after the last pass.
C29_OneCallAtATime ==
  /\ []OneCallOutstanding
  /\ [][IssuedAfterAccumulation /\ PassAfterLastBatch /\ MergeAfterLastPass]_vars

\* C29 witness: the second batch of the second pass is awaited
C29_Witness ==
  /\ pc = "await"
  /\ passNo = 1
  /\ batchStart > 0
  /\ Len(inflight) = 1
  /\ Len(inferLog) >= 4

(***************************************************************************)
(* Specification SpecInfer: a single-pass run of annotateDocuments whose   *)
(* language model is one of the built-in clients.  The environment is the  *)
(* remote API: each prompt's request returns text, fails, or times out,    *)
(* and concurrent requests settle in any order.                            *)
(***************************************************************************)
Clients == {"gemini", "openai", "ollama"}

\* what the HTTP request of one prompt does
ApiText == [kind |-> "text", text |-> ExtractionsOutput(<<"a">>)]
ApiError == [kind |-> "error", text |-> <<>>]
ApiTimeout == [kind |-> "timeout", text |-> <<>>]
ApiOutcomes == {ApiText, ApiError, ApiTimeout}

InferDocuments ==
  {[text |-> <<"a">>, documentId |-> ""], [text |-> <<"a", " ", "b">>, documentId |-> "d1"]}

\* callGeminiAPI / callOpenAIAPI / ollamaQuery: the response body's text, or
\* the error rethrown from the failed request
callApi(client, outcome) ==
  IF outcome.kind = "text"
  THEN Returned(outcome.text)
  ELSE Raised("Error", IF client = "gemini" THEN "Gemini API error"
                       ELSE IF client = "openai" THEN "OpenAI API error"
                       ELSE "Ollama API error")

\* processSinglePrompt of the Gemini and OpenAI clients
processSinglePrompt(client, outcome) ==
  LET response == callApi(client, outcome)
  IN IF response.raised
     THEN Raised("InferenceOutputError",
                 IF client = "gemini" THEN "Failed to get response from Gemini"
                 ELSE "Failed to get response from OpenAI")
     ELSE Returned(ScoredOutput(1, response.value))

\* the .then() of a prompt's promise (the push of the sequential path): wrap
\* the scored output in a one-element response list
ThenResponseList(client, outcome) ==
  LET result == IF client = "ollama" THEN callApi(client, outcome)
                ELSE processSinglePrompt(client, outcome)
  IN IF result.raised THEN result
     ELSE Returned(<<IF client = "ollama" THEN ScoredOutput(1, result.value)
                     ELSE result.value>>)

\* mutant: the rejection is passed on
CatchRethrows(result) == result

\* the .catch() of a prompt's promise (the catch block of the sequential
\* path): a rejection becomes the zero-score response without output
CatchToSentinel(result) ==
  IF result.raised THEN Returned(<<NoOutput>>) ELSE result

\* the settled promise of one prompt
PromptPromise(client, outcome) == CatchToSentinel(ThenResponseList(client, outcome))

\* batchPrompts.length > 1 && this.config.maxWorkers > 1 (the Ollama client
\* has no maxWorkers)
UseConcurrent(client, maxWorkers, batchPrompts) ==
  /\ Len(batchPrompts) > 1
  /\ client = "ollama" \/ maxWorkers > 1

\* mutant: a settled value is placed in order of arrival
StoreSettledInArrivalOrder(results, arrived, j, value) ==
  [results EXCEPT ![Len(arrived) + 1] = value]

\* Promise.all keeps the value of promise j at position j
StoreSettled(results, arrived, j, value) == [results EXCEPT ![j] = value]

\* Promise.all: rejected as soon as one promise is, else the list of values
PromiseAll(results) ==
  IF \E j \in 1..Len(results) : results[j].raised
  THEN results[CHOOSE j \in 1..Len(results) : results[j].raised]
  ELSE Returned([j \in 1..Len(results) |-> results[j].value])

Unsettled == [raised |-> FALSE, value |-> "unsettled"]

InitInfer ==
  /\ pc = "start"
  /\ ret = Returned(<<>>)
  /\ OrchIdle
  /\ \E n \in 1..MaxDocs : \E docs \in [1..n -> InferDocuments] :
     \E buf \in 2..MaxOrchBuf, bl \in 1..MaxBatch, client \in Clients, maxWorkers \in {1, 10} :
     \E outcomes \in [1..Len(CollectChunks(docs, [d \in 1..n |-> "id"], buf, 1)) -> ApiOutcomes] :
       args = [documents |-> docs, maxCharBuffer |-> buf, batchLength |-> bl,
               extractionPasses |-> 1, fenceOutput |-> FALSE,
               client |-> client, maxWorkers |-> maxWorkers, apiOutcomes |-> outcomes]

\* infer is entered: the concurrent path creates one promise per prompt, the
\* sequential path starts with an empty result list
InferEnter ==
  /\ pc = "await"
  /\ inflight' =
       <<[prompts |-> inflight[1].prompts,
          results |-> IF UseConcurrent(args.client, args.maxWorkers, inflight[1].prompts)
                      THEN [j \in 1..Len(inflight[1].prompts) |-> Unsettled]
                      ELSE <<>>,
          arrived |-> <<>>]>>
  /\ pc' = "calls"
  /\ UNCHANGED <<args, ret, documentIds, allChunks, passNo, batchStart,
                 documentExtractions, passDocumentExtractions, documentPassExtractions,
                 inferLog>>

\* concurrent path: the promise of any pending prompt settles
SettleConcurrent ==
  /\ pc = "calls"
  /\ UseConcurrent(args.client, args.maxWorkers, inflight[1].prompts)
  /\ \E j \in 1..Len(inflight[1].prompts) :
       /\ \A k \in 1..Len(inflight[1].arrived) : inflight[1].arrived[k] # j
       /\ inflight' =
            <<[inflight[1] EXCEPT
                 !.results = StoreSettled(inflight[1].results, inflight[1].arrived, j,
                               PromptPromise(args.client,
                                             args.apiOutcomes[inflight[1].prompts[j]])),
                 !.arrived = Append(inflight[1].arrived, j)]>>
  /\ UNCHANGED <<pc, args, ret, documentIds, allChunks, passNo, batchStart,
                 documentExtractions, passDocumentExtractions, documentPassExtractions,
                 inferLog>>

\* sequential path: the next prompt is awaited and its response list pushed;
\* an error that leaves the try block rejects infer
SettleSequential ==
  /\ pc = "calls"
  /\ ~UseConcurrent(args.client, args.maxWorkers, inflight[1].prompts)
  /\ Len(inflight[1].results) < Len(inflight[1].prompts)
  /\ \E j \in {Len(inflight[1].results) + 1} :
     \E settled \in {PromptPromise(args.client, args.apiOutcomes[inflight[1].prompts[j]])} :
       IF settled.raised
       THEN /\ pc' = "failed"
            /\ ret' = settled
            /\ inflight' = <<>>
       ELSE /\ inflight' = <<[inflight[1] EXCEPT
                                !.results = Append(inflight[1].results, settled),
                                !.arrived = Append(inflight[1].arrived, j)]>>
            /\ UNCHANGED <<pc, ret>>
  /\ UNCHANGED <<args, documentIds, allChunks, passNo, batchStart,
                 documentExtractions, passDocumentExtractions, documentPassExtractions,
                 inferLog>>

\* every prompt has settled: infer returns the response lists in prompt
\* order, or rejects with the first rejection
InferReturn ==
  /\ pc = "calls"
  /\ Len(inflight[1].arrived) = Len(inflight[1].prompts)
  /\ \E all \in {PromiseAll(inflight[1].results)} :
       IF all.raised
       THEN /\ pc' = "failed"
            /\ ret' = all
            /\ inflight' = <<>>
       ELSE /\ pc' = "process"
            /\ inflight' = <<[prompts |-> inflight[1].prompts, outputs |-> all.value,
                              arrived |-> inflight[1].arrived]>>
            /\ UNCHANGED ret
  /\ UNCHANGED <<args, documentIds, allChunks, passNo, batchStart,
                 documentExtractions, passDocumentExtractions, documentPassExtractions,
                 inferLog>>

NextInfer ==
  \/ Collect
  \/ IssueInfer
  \/ InferEnter
  \/ SettleConcurrent
  \/ SettleSequential
  \/ InferReturn
  \/ ProcessBatch
  \/ EndBatches
  \/ Finalize

SpecInfer == InitInfer /\ [][NextInfer]_vars

\* the response list the claim expects for an API outcome
ExpectedResponse(outcome) ==
  IF outcome.kind = "text" THEN <<ScoredOutput(1, outcome.text)>> ELSE <<NoOutput>>

AccumulatedInChunkOrder(m) ==
  ProcessResults(EmptyMap, [k \in 1..m |-> allChunks[k]],
                 [k \in 1..m |-> ExpectedResponse(args.apiOutcomes[k])],
                 args.fenceOutput, m).value

\* C18: within a batch whose prompt calls are issued concurrently the
\* outcome does not depend on the order in which the calls complete: for
\* every interleaving of completions, response j is attributed to chunk j
\* of the batch, and every document's accumulated extraction list (content
\* and order) is the same.
C18_CompletionOrderIrrelevant ==
  /\ pc = "process" /\ Len(inflight[1].prompts) > 1 =>
       \A j \in 1..Len(inflight[1].prompts) :
         inflight[1].outputs[j] = ExpectedResponse(args.apiOutcomes[inflight[1].prompts[j]])
  /\ pc = "batch" =>
       documentExtractions =
         AccumulatedInChunkOrder(IF batchStart < Len(allChunks) THEN batchStart
                                 ELSE Len(allChunks))

\* C18 witness: infer has returned for a concurrent batch in which the call
\* of the second prompt completed before the call of the first, and the two
\* calls had different outcomes
C18_Witness ==
  /\ pc = "process"
  /\ UseConcurrent(args.client, args.maxWorkers, inflight[1].prompts)
  /\ inflight[1].arrived = <<2, 1>>
  /\ args.apiOutcomes[inflight[1].prompts[1]] = ApiText
  /\ args.apiOutcomes[inflight[1].prompts[2]] = ApiError

\* a step taken while the awaited infer call is rejected makes the run
\* fail with the error of the rejection, without another infer call
RejectionFailsRun ==
  pc = "rejected" =>
    /\ pc' = "failed"
    /\ ret' = inflight[1].error
    /\ inferLog' = inferLog

\* C19: if the language model's infer call itself rejects, extract rejects
\* with that same error and returns no AnnotatedDocument: the orchestrator
\* neither converts the rejection into an empty output nor retries the call.
C19_InferRejectionPropagates ==
  /\ [][RejectionFailsRun]_vars
  /\ [][pc # "failed"]_vars
  /\ [](pc = "failed" => ret.raised)

\* C19 witness: the second infer call of a run rejected and the run has
\* failed with its error
C19_Witness ==
  /\ pc = "failed"
  /\ ret = Raised("TypeError", "model error")
  /\ Len(inferLog) = 2

(***************************************************************************)
(* Specification SpecExtract: one call of extract, from the validation of  *)
(* its options to the first infer call of the annotator.                   *)
(***************************************************************************)
Absent == [defined |-> FALSE, value |-> ""]
Given(v) == [defined |-> TRUE, value |-> v]

\* options.examples: absent, an empty list, a list of one example
ExamplesOptions == {"undefined", "empty", "one"}

\* options.languageModel: absent or a custom model
LanguageModelOptions == {"undefined", "custom"}

\* options.modelType
ModelTypeOptions == {Absent, Given("gemini"), Given("openai"), Given("ollama")}

\* options.apiKey: absent, the empty string, a key
ApiKeyOptions == {Absent, Given(""), Given("k")}

\* textOrDocuments: a string, an array of documents, one document
InputOptions ==
  {[form |-> "string", docs |-> <<[text |-> <<"a">>, documentId |-> ""]>>],
   [form |-> "array", docs |-> <<[text |-> <<"a">>, documentId |-> "d1"],
                                 [text |-> <<"a", " ", "b">>, documentId |-> ""]>>],
   [form |-> "document", docs |-> <<[text |-> <<"a", " ", "b">>, documentId |-> "d1"]>>]}

EXAMPLES_REQUIRED == Raised("Error", "Examples are required for reliable extraction")
API_KEY_REQUIRED == Raised("Error", "API key must be provided for cloud-hosted models")

\* modelType = "gemini" by default
ModelTypeOrDefault(modelType) == IF modelType.defined THEN modelType.value ELSE "gemini"

\* !apiKey
NoApiKey(apiKey) == ~apiKey.defined \/ apiKey.value = ""

\* the documents handed to annotateDocuments; annotateText gives its
\* document a generated id
DocumentsOf(textOrDocuments) ==
  IF textOrDocuments.form = "string"
  THEN <<[text |-> textOrDocuments.docs[1].text, documentId |-> "doc_1"]>>
  ELSE textOrDocuments.docs

InitExtract ==
  /\ pc = "extract"
  /\ ret = Returned(<<>>)
  /\ OrchIdle
  /\ \E examples \in ExamplesOptions, languageModel \in LanguageModelOptions,
        modelType \in ModelTypeOptions, apiKey \in ApiKeyOptions,
        textOrDocuments \in InputOptions :
       args = [examples |-> examples, languageModel |-> languageModel,
               modelType |-> modelType, apiKey |-> apiKey,
               textOrDocuments |-> textOrDocuments, documents |-> <<>>,
               maxCharBuffer |-> MaxOrchBuf, batchLength |-> MaxBatch,
               extractionPasses |-> 1, fenceOutput |-> FALSE]

\* if (!examples || examples.length === 0) throw
ValidateExamples ==
  /\ pc = "extract"
  /\ IF args.examples \in {"undefined", "empty"}
     THEN /\ pc' = "failed"
          /\ ret' = EXAMPLES_REQUIRED
     ELSE /\ pc' = "model"
          /\ UNCHANGED ret
  /\ UNCHANGED <<args, orchVars>>

\* the custom model is used if given; otherwise an API key is demanded and
\* the client of the model type is created
CreateLanguageModel ==
  /\ pc = "model"
  /\ IF args.languageModel = "custom"
     THEN /\ pc' = "dispatch"
          /\ UNCHANGED ret
     ELSE IF NoApiKey(args.apiKey)
          THEN /\ pc' = "failed"
               /\ ret' = API_KEY_REQUIRED
          ELSE /\ pc' = "dispatch"
               /\ UNCHANGED ret
  /\ UNCHANGED <<args, orchVars>>

\* the input is handed to annotateText or annotateDocuments
Dispatch ==
  /\ pc = "dispatch"
  /\ args' = [args EXCEPT !.documents = DocumentsOf(args.textOrDocuments)]
  /\ pc' = "start"
  /\ UNCHANGED <<ret, orchVars>>

NextExtract ==
  \/ ValidateExamples
  \/ CreateLanguageModel
  \/ Dispatch
  \/ Collect
  \/ IssueInfer

SpecExtract == InitExtract /\ [][NextExtract]_vars

\* the model types the claim calls cloud-hosted
CloudHosted(modelType) == ModelTypeOrDefault(modelType) \in {"gemini", "openai"}

\* C20: extract rejects before any model call when examples is missing or
\* empty; otherwise, when no custom languageModel is supplied, an apiKey is
\* required for the cloud-hosted model types gemini and openai but not for
\* modelType ollama, and when a custom languageModel is supplied no apiKey
\* is required.
C20_ExtractValidation ==
  /\ args.examples \in {"undefined", "empty"} =>
       /\ pc \in {"extract", "failed"}
       /\ inferLog = <<>>
       /\ pc = "failed" => ret = EXAMPLES_REQUIRED
  /\ args.examples = "one" =>
       /\ (args.languageModel = "undefined" /\ CloudHosted(args.modelType)
             /\ NoApiKey(args.apiKey)) =>
            /\ pc \in {"extract", "model", "failed"}
            /\ inferLog = <<>>
            /\ pc = "failed" => ret = API_KEY_REQUIRED
       /\ (args.languageModel = "undefined" /\ ~CloudHosted(args.modelType)) =>
            pc # "failed"
       /\ args.languageModel = "custom" => pc # "failed"

\* the same with an apiKey required for every built-in model type
ExtractValidationAnyBuiltIn ==
  /\ args.examples \in {"undefined", "empty"} =>
       /\ pc \in {"extract", "failed"}
       /\ inferLog = <<>>
       /\ pc = "failed" => ret = EXAMPLES_REQUIRED
  /\ args.examples = "one" =>
       /\ (args.languageModel = "undefined" /\ NoApiKey(args.apiKey)) =>
            /\ pc \in {"extract", "model", "failed"}
            /\ inferLog = <<>>
            /\ pc = "failed" => ret = API_KEY_REQUIRED
       /\ (args.languageModel = "undefined" /\ ~NoApiKey(args.apiKey)) => pc # "failed"
       /\ args.languageModel = "custom" => pc # "failed"

(***************************************************************************)
(* Specification SpecLoops: one call of annotateDocuments with the         *)
(* chunking loop taken one iteration at a time, for any maxCharBuffer and  *)
(* batchLength from 0 on.  Every infer call returns well-formed output.    *)
(* The run is single-threaded and every awaited call returns, so each step *)
(* that can be taken eventually is (weak fairness).                        *)
(***************************************************************************)
\* the longest text of InferDocuments
LongestText ==
  CHOOSE n \in {Len(d.text) : d \in InferDocuments} :
    \A d \in InferDocuments : Len(d.text) <= n

\* a run of the loops is followed up to this many chunks and infer calls,
\* more than any run with maxCharBuffer >= 1 and batchLength >= 1 needs
ChunkCap == MaxDocs * LongestText + 1
CallCap == MaxRunPasses * ChunkCap + 1

LoopResponses == {<<NoOutput>>, <<ScoredOutput(1, ExtractionsOutput(<<"a">>))>>}

\* the chunks pushed so far for document d
ChunksOf(d) == SelectSeq(allChunks, LAMBDA item : item.document = d)

\* currentPos of document d's chunking loop: where its last chunk ends
CurrentPos(d) ==
  IF ChunksOf(d) = <<>> THEN 0
  ELSE Min(ChunksOf(d)[Len(ChunksOf(d))].chunk.charOffset + args.maxCharBuffer,
           Len(args.documents[d].text))

\* tokenOffset of document d's chunking loop
CurrentTokenOffset(d) ==
  IF ChunksOf(d) = <<>> THEN 0
  ELSE ChunksOf(d)[Len(ChunksOf(d))].chunk.tokenOffset
         + Len(tokenize(ChunksOf(d)[Len(ChunksOf(d))].chunk.text).tokens)

\* while (currentPos < text.length) has not ended for document d
StillChunking(d) == CurrentPos(d) < Len(args.documents[d].text)

InitLoops ==
  /\ pc = "start"
  /\ ret = Returned(<<>>)
  /\ OrchIdle
  /\ \E n \in 1..MaxDocs : \E docs \in [1..n -> InferDocuments] :
     \E buf \in 0..MaxOrchBuf, bl \in 0..MaxBatch, passes \in 0..MaxRunPasses :
       args = [documents |-> docs, maxCharBuffer |-> buf, batchLength |-> bl,
               extractionPasses |-> passes, fenceOutput |-> FALSE]

\* the document ids are assigned
AssignIds ==
  /\ pc = "start"
  /\ documentIds' = [d \in 1..Len(args.documents) |-> AssignedId(args.documents[d], d)]
  /\ pc' = "chunk"
  /\ UNCHANGED <<args, ret, allChunks, passNo, batchStart, documentExtractions,
                 passDocumentExtractions, documentPassExtractions, inflight, inferLog>>

\* one iteration of the chunking loop of the first document whose loop has
\* not ended
ChunkStep ==
  /\ pc = "chunk"
  /\ Len(allChunks) < ChunkCap
  /\ \E d \in 1..Len(args.documents) :
       /\ StillChunking(d)
       /\ \A c \in 1..(d - 1) : ~StillChunking(c)
       /\ allChunks' = Append(allChunks,
            [chunk |-> ChunkAt(args.documents[d].text, args.maxCharBuffer,
                               CurrentPos(d), CurrentTokenOffset(d)),
             document |-> d, documentId |-> documentIds[d]])
  /\ UNCHANGED <<pc, args, ret, documentIds, passNo, batchStart, documentExtractions,
                 passDocumentExtractions, documentPassExtractions, inflight, inferLog>>

\* the chunking loops of all documents have ended
ChunkingDone ==
  /\ pc = "chunk"
  /\ \A d \in 1..Len(args.documents) : ~StillChunking(d)
  /\ documentPassExtractions' =
       IF SinglePass THEN documentPassExtractions
       ELSE [id \in {documentIds[d] : d \in 1..Len(documentIds)} |-> <<>>]
  /\ pc' = IF SinglePass THEN "batch" ELSE "pass"
  /\ UNCHANGED <<args, ret, documentIds, allChunks, passNo, batchStart,
                 documentExtractions, passDocumentExtractions, inflight, inferLog>>

\* the head of the batch loop, followed up to CallCap infer calls
IssueInferCapped ==
  /\ Len(inferLog) < CallCap
  /\ IssueInfer

\* the awaited infer call returns one well-formed response list per prompt
InferResolveWellFormed ==
  /\ pc = "await"
  /\ \E batchModelOutputs \in [1..Len(inflight[1].prompts) -> LoopResponses] :
       inflight' = <<[prompts |-> inflight[1].prompts, outputs |-> batchModelOutputs]>>
  /\ pc' = "process"
  /\ UNCHANGED <<args, ret, documentIds, allChunks, passNo, batchStart,
                 documentExtractions, passDocumentExtractions, documentPassExtractions,
                 inferLog>>

NextLoops ==
  \/ AssignIds
  \/ ChunkStep
  \/ ChunkingDone
  \/ BeginPass
  \/ EndPasses
  \/ IssueInferCapped
  \/ InferResolveWellFormed
  \/ ProcessBatch
  \/ EndBatches
  \/ Finalize

\* the steps other than the processing of a returned batch
LoopSteps ==
  \/ AssignIds
  \/ ChunkStep
  \/ ChunkingDone
  \/ BeginPass
  \/ EndPasses
  \/ IssueInferCapped
  \/ InferResolveWellFormed
  \/ EndBatches
  \/ Finalize

\* a step that can be taken is taken, and the processing of a returned
\* batch, a loop over the chunks of the batch, always ends
SpecLoops ==
  InitLoops /\ [][NextLoops]_vars /\ WF_vars(LoopSteps) /\ []<>(pc # "process")

RunTerminatesPositiveSizes ==
  (args.maxCharBuffer >= 1 /\ args.batchLength >= 1) => <>(pc = "done")

\* with maxCharBuffer >= 1 the chunking loop collects what chunkDocument
\* returns
ChunkStepsCollectChunks ==
  (args.maxCharBuffer >= 1 /\ pc \notin {"start", "chunk"}) =>
    allChunks = CollectChunks(args.documents, documentIds, args.maxCharBuffer, 1)

====
